---- MODULE Spec2Model ----
(***************************************************************************)
(* Enhanced Shopping List card (www/enhanced-shopping-list-card.js v2.6.2) *)
(* and its description-field variant (custom_components/...):              *)
(* the summary codec, and the reconciliation engine (local snapshot,       *)
(* debounced quantity writes, re-fetch after every write).                 *)
(*                                                                         *)
(* A JavaScript string is modelled as a sequence of one-character strings. *)
(***************************************************************************)
EXTENDS Integers, Sequences, FiniteSets, TLC

VARIABLES
    config,     \* this._config.entity: "" while no list entity is configured
    hass,       \* this._hass: <<>> for null, else <<last_updated of the list entity>>
    rendered,   \* this._rendered
    items,      \* this._items: the local snapshot
    inputValue, \* this._inputValue
    qtyTimers,  \* this._qtyTimers: uid -> timer handle, 0 where the key is absent
    timers,     \* the browser's scheduled timeouts, each with its callback's closure
    net,        \* remote calls sent and not yet settled, each with its continuation
    remote,     \* the items of the external todo list
    remoteSeq,  \* the external store's counters: next uid, last_updated
    sent,       \* the remote calls issued by the latest step
    lastOp,     \* the handler or callback the latest step ran
    thrown,     \* an error escaped an operation of the card
    clock,      \* bookkeeping of the model: user operations spent
    burst,      \* bookkeeping: per uid, the quantities asked for in the running burst
    cPhase,     \* codec: "fields", then "encoded", then "decoded"
    cIn,        \* codec: the fields handed to formatSummary
    cSummary,   \* codec: the encoded summary (empty before encoding)
    cOut,       \* codec: the result of parseSummary (blank before decoding)
    variant,    \* the build of the card that is loaded: "www" or "cc"
    editing,    \* the open inline name editor: <<>>, or <<[uid, value]>> with the typed value
    fIn,        \* matcher: the query and the two targets handed to fuzzyScore
    fOut,       \* matcher: <<>>, or the two scores once computed
    fetched,    \* bookkeeping: "none", "ok" once list calls resolved, "failed" once one rejected
    suggestions, \* the suggestion box: [pending: its 300 ms timer is armed, shown: the uids listed]
    asked,      \* bookkeeping: per uid, the +1 operations made on it so far
    vIn,        \* projection: the snapshot and the view settings handed to _updateLists
    vOut        \* projection: <<>>, or the lists once rendered

codecVars == <<cPhase, cIn, cSummary, cOut>>

fuzzyVars == <<fIn, fOut>>

viewVars == <<vIn, vOut>>

cardVars == <<config, hass, rendered, items, inputValue, qtyTimers, timers>>

vars == <<config, hass, rendered, items, inputValue, qtyTimers, timers, net, remote, remoteSeq,
          sent, lastOp, thrown, clock, burst, cPhase, cIn, cSummary, cOut, variant, editing,
          fIn, fOut, fetched, suggestions, asked, vIn, vOut>>

(***************************************************************************)
(* Bounds of the model                                                     *)
(***************************************************************************)
MaxNameLen  == 4    \* longest name handed to the codec
MaxNotesLen == 2    \* longest notes text handed to the codec
MaxCatLen   == 1    \* longest category handed to the codec
MaxUid      == 3    \* uids the external store hands out: 1..MaxUid
MaxClock    == 2    \* user operations in one run (a burst of quantity edits is one)
MaxBurst    == 3    \* quantity edits in one burst
MaxQueryLen == 2    \* longest query handed to the matcher
MaxTargetLen == 3   \* longest short target handed to the matcher
MaxNet      == 2    \* remote calls in flight at once
TickMs      == 250  \* milliseconds by which one Tick advances the timers

Uids == 1..MaxUid

TimerHandles == 1..(MaxUid + 1)

(***************************************************************************)
(* String helpers (String.prototype.trim / indexOf / toLowerCase, \s, \d)  *)
(***************************************************************************)
LineBreak == "\n"

IsWs(c) == c \in {" ", LineBreak}     \* \s, and what trim() strips

IsDot(c) == c # LineBreak             \* . matches anything but a line terminator

DigitChars == <<"0", "1", "2", "3", "4", "5", "6", "7", "8", "9">>

IsDigit(c) == \E d \in 1..10 : DigitChars[d] = c

DigitVal(c) == (CHOOSE d \in 1..10 : DigitChars[d] = c) - 1

SetMin(S) == CHOOSE x \in S : \A y \in S : x <= y

RECURSIVE TrimStart(_)
TrimStart(s) == IF s # <<>> /\ IsWs(Head(s)) THEN TrimStart(Tail(s)) ELSE s

RECURSIVE TrimEnd(_)
TrimEnd(s) ==
    IF s # <<>> /\ IsWs(s[Len(s)]) THEN TrimEnd(SubSeq(s, 1, Len(s) - 1)) ELSE s

Trim(s) == TrimEnd(TrimStart(s))

\* s.indexOf(pat): 0-based index of the first occurrence, -1 when absent
IndexOf(s, pat) ==
    LET hits == {i \in 1..(Len(s) - Len(pat) + 1) : SubSeq(s, i, i + Len(pat) - 1) = pat}
    IN  IF hits = {} THEN -1 ELSE SetMin(hits) - 1

\* `${n}` for an integer n >= 0
RECURSIVE NumToStr(_)
NumToStr(n) ==
    IF n < 10 THEN <<DigitChars[n + 1]>>
    ELSE NumToStr(n \div 10) \o <<DigitChars[(n % 10) + 1]>>

\* parseInt(d, 10) for a string of decimal digits
RECURSIVE ParseInt(_)
ParseInt(d) ==
    IF d = <<>> THEN 0
    ELSE 10 * ParseInt(SubSeq(d, 1, Len(d) - 1)) + DigitVal(d[Len(d)])

NoteSep == <<" ", "/", "/", " ">>

NotCloseBracket(c) == c # "]"

\* the character classes of the two tail groups: \d and [^\]]
InClass(class, c) == IF class = "\\d" THEN IsDigit(c) ELSE NotCloseBracket(c)

(***************************************************************************)
(* /^(.+?)\s*<open>(<body>+)<close>$/ : the lazy group 1 grows from one    *)
(* character; \s* then takes the whitespace run; <open> must follow; the   *)
(* body takes every following character of its class and must be non-empty *)
(* and end right before a final <close>.                                   *)
(***************************************************************************)
TailGroupMatch(s, open, close, class) ==
    LET n == Len(s)
        OpenAt(k) == SetMin({p \in (k + 1)..(n + 1) : p = n + 1 \/ ~IsWs(s[p])})
        Fits(k) ==
            LET p == OpenAt(k)
            IN  /\ \A j \in 1..k : IsDot(s[j])
                /\ p <= n - 2
                /\ s[p] = open
                /\ s[n] = close
                /\ \A j \in (p + 1)..(n - 1) : InClass(class, s[j])
        ks == {k \in 1..n : Fits(k)}
    IN  IF ks = {} THEN [ok |-> FALSE, g1 |-> <<>>, g2 |-> <<>>]
        ELSE LET k == SetMin(ks)
                 p == OpenAt(k)
             IN  [ok |-> TRUE, g1 |-> SubSeq(s, 1, k), g2 |-> SubSeq(s, p + 1, n - 1)]

(***************************************************************************)
(* Summary codec                                                           *)
(***************************************************************************)
\* the notes after ' // ' left out of the fields
parseSummaryNotesLost(summary) ==
    LET s        == Trim(summary)
        noteIdx  == IndexOf(s, NoteSep)
        name1    == IF noteIdx >= 0 THEN Trim(SubSeq(s, 1, noteIdx)) ELSE s
        catMatch == TailGroupMatch(name1, "[", "]", "[^\\]]")
        name2    == IF catMatch.ok THEN Trim(catMatch.g1) ELSE name1
        category == IF catMatch.ok THEN Trim(catMatch.g2) ELSE <<>>
        qm       == TailGroupMatch(name2, "(", ")", "\\d")
        name     == IF qm.ok THEN Trim(qm.g1) ELSE name2
        qty      == IF qm.ok THEN ParseInt(qm.g2) ELSE 1
    IN  [name |-> name, qty |-> qty, notes |-> <<>>, category |-> category]

\* the category and the quantity taken from the whole text, the notes last
parseSummaryNotesLast(summary) ==
    LET s        == Trim(summary)
        catMatch == TailGroupMatch(s, "[", "]", "[^\\]]")
        name1    == IF catMatch.ok THEN Trim(catMatch.g1) ELSE s
        category == IF catMatch.ok THEN Trim(catMatch.g2) ELSE <<>>
        qm       == TailGroupMatch(name1, "(", ")", "\\d")
        name2    == IF qm.ok THEN Trim(qm.g1) ELSE name1
        qty      == IF qm.ok THEN ParseInt(qm.g2) ELSE 1
        noteIdx  == IndexOf(name2, NoteSep)
        notes    == IF noteIdx >= 0 THEN Trim(SubSeq(name2, noteIdx + 5, Len(name2))) ELSE <<>>
        name     == IF noteIdx >= 0 THEN Trim(SubSeq(name2, 1, noteIdx)) ELSE name2
    IN  [name |-> name, qty |-> qty, notes |-> notes, category |-> category]

parseSummary(summary) ==
    LET s        == Trim(summary)
        noteIdx  == IndexOf(s, NoteSep)
        notes    == IF noteIdx >= 0 THEN Trim(SubSeq(s, noteIdx + 5, Len(s))) ELSE <<>>
        name1    == IF noteIdx >= 0 THEN Trim(SubSeq(s, 1, noteIdx)) ELSE s
        catMatch == TailGroupMatch(name1, "[", "]", "[^\\]]")
        name2    == IF catMatch.ok THEN Trim(catMatch.g1) ELSE name1
        category == IF catMatch.ok THEN Trim(catMatch.g2) ELSE <<>>
        qm       == TailGroupMatch(name2, "(", ")", "\\d")
        name     == IF qm.ok THEN Trim(qm.g1) ELSE name2
        qty      == IF qm.ok THEN ParseInt(qm.g2) ELSE 1
    IN  [name |-> name, qty |-> qty, notes |-> notes, category |-> category]

\* the category written before the quantity
formatSummaryCategoryFirst(name, qty, notes, category) ==
    LET s1 == IF category # <<>> THEN name \o <<" ", "[">> \o category \o <<"]">> ELSE name
        s2 == IF qty > 1 THEN s1 \o <<" ", "(">> \o NumToStr(qty) \o <<")">> ELSE s1
    IN  IF notes # <<>> THEN s2 \o NoteSep \o notes ELSE s2

formatSummary(name, qty, notes, category) ==
    LET s1 == IF qty > 1 THEN name \o <<" ", "(">> \o NumToStr(qty) \o <<")">> ELSE name
        s2 == IF category # <<>> THEN s1 \o <<" ", "[">> \o category \o <<"]">> ELSE s1
    IN  IF notes # <<>> THEN s2 \o NoteSep \o notes ELSE s2

(***************************************************************************)
(* Codec specification: the fields are drawn from bounded sets, encoded,   *)
(* and the summary decoded again.                                          *)
(***************************************************************************)
StringsUpTo(S, n) == UNION {[1..k -> S] : k \in 0..n}

CodecNames == StringsUpTo({"a", " ", "/", LineBreak}, MaxNameLen)
CodecNotes == StringsUpTo({"b", " "}, MaxNotesLen)
CodecCats  == StringsUpTo({"c", " "}, MaxCatLen)
CodecQtys  == {1, 2, 10}

NoPatch == [field |-> "none", uid |-> 0, value |-> <<>>, live |-> FALSE]

\* a todo.<service> call handed to hass.callService by handler `by`, with what the
\* handler does after it: patch li, fetch, clear the input
ServiceCall(by, svc, uids, summary, status, patch, clear) ==
    [kind |-> "service", by |-> by, svc |-> svc, uids |-> uids, summary |-> summary,
     status |-> status, description |-> <<>>, patch |-> patch, clear |-> clear,
     phase |-> "sent", res |-> <<>>]

\* a todo/item/list call handed to hass.callWS
ListCall(clear) ==
    [kind |-> "list", by |-> "fetchItems", svc |-> "list", uids |-> {}, summary |-> <<>>,
     status |-> "", description |-> <<>>, patch |-> NoPatch, clear |-> clear,
     phase |-> "sent", res |-> <<>>]

NoCall == [ListCall(FALSE) EXCEPT !.kind = "none", !.by = "", !.svc = ""]

\* the card as its constructor leaves it (lines 65-78), and an idle environment
CardConstructed ==
    /\ config = ""
    /\ hass = <<>>
    /\ rendered = FALSE
    /\ items = <<>>
    /\ inputValue = <<>>
    /\ qtyTimers = [u \in Uids |-> 0]
    /\ timers = {}
    /\ net = <<>>
    /\ sent = <<>>
    /\ lastOp = [op |-> "constructor", uid |-> 0, call |-> NoCall, arg |-> <<>>]
    /\ thrown = FALSE
    /\ clock = 0
    /\ burst = [u \in Uids |-> <<>>]
    /\ editing = <<>>
    /\ fetched = "none"
    /\ suggestions = [pending |-> FALSE, shown |-> <<>>]
    /\ asked = [u \in Uids |-> 0]

BlankFields == [name |-> <<>>, qty |-> 1, notes |-> <<>>, category |-> <<>>]

CodecIdle ==
    /\ cPhase = "fields"
    /\ cIn = BlankFields
    /\ cSummary = <<>>
    /\ cOut = BlankFields

MatcherIdle ==
    /\ fIn = [query |-> <<>>, t1 |-> <<>>, t2 |-> <<>>]
    /\ fOut = <<>>

\* nothing handed to the projection
ViewIdle ==
    /\ vIn = [items |-> <<>>, show_categories |-> TRUE, sort_by |-> "manual"]
    /\ vOut = <<>>

InitCodec ==
    /\ cIn \in [name : CodecNames, qty : CodecQtys, notes : CodecNotes, category : CodecCats]
    /\ cPhase = "fields"
    /\ cSummary = <<>>
    /\ cOut = BlankFields
    /\ CardConstructed
    /\ remote = <<>>
    /\ remoteSeq = [uid |-> 1, updated |-> 0]
    /\ variant = "www"
    /\ MatcherIdle
    /\ ViewIdle

Encode ==
    /\ cPhase = "fields"
    /\ cPhase' = "encoded"
    /\ cSummary' = formatSummary(cIn.name, cIn.qty, cIn.notes, cIn.category)
    /\ UNCHANGED <<cIn, cOut, cardVars, net, remote, remoteSeq, sent, lastOp, thrown, clock, burst,
                   variant, editing, fuzzyVars, viewVars, fetched, asked, suggestions>>

Decode ==
    /\ cPhase = "encoded"
    /\ cPhase' = "decoded"
    /\ cOut' = parseSummary(cSummary)
    /\ UNCHANGED <<cIn, cSummary, cardVars, net, remote, remoteSeq, sent, lastOp, thrown, clock,
                   burst, variant, editing, fuzzyVars, viewVars, fetched, asked, suggestions>>

NextCodec == Encode \/ Decode

SpecCodec == InitCodec /\ [][NextCodec]_vars

(***************************************************************************)
(* Parser specification: a raw summary, as any client may have written it, *)
(* is decoded.                                                             *)
(***************************************************************************)
MaxHeadLen == 4   \* longest enumerated text before the notes

\* texts before the notes: every short string over the delimiters, a letter, a digit
\* and a blank, and some longer ones with two groups
RawHeads ==
    StringsUpTo({"a", " ", "(", ")", "[", "]", "1"}, MaxHeadLen)
        \cup { <<"a", " ", "(", "1", ")", " ", "[", "c", "]">>,
               <<"a", " ", "(", "x", ")", " ", "[", "c", "]">>,
               <<"a", " ", "[", "c", "]", " ", "(", "1", ")">>,
               <<"E", "g", "g", "s">> }

\* texts after ' // '
RawTails ==
    { <<"b">>, <<"[", "c", "]">>, <<"(", "2", ")">>, <<"b", " ", "(", "2", ")", " ", "[", "c", "]">>,
      <<"b", " ", "/", "/", " ", "[", "c", "]">>, <<" ", "b", "]">>, <<"(", "b">> }

RawSummaries == RawHeads \cup {h \o NoteSep \o n : h \in RawHeads, n \in RawTails}

InitParse ==
    /\ cSummary \in RawSummaries
    /\ cPhase = "encoded"
    /\ cIn = BlankFields
    /\ cOut = BlankFields
    /\ CardConstructed
    /\ remote = <<>>
    /\ remoteSeq = [uid |-> 1, updated |-> 0]
    /\ variant = "www"
    /\ MatcherIdle
    /\ ViewIdle

NextParse == Decode

SpecParse == InitParse /\ [][NextParse]_vars

(***************************************************************************)
(* Fuzzy matcher (lines 39-53)                                             *)
(***************************************************************************)
CONTIGUOUS_BASE == 1000

LowerChar(c) == CASE c = "A" -> "a" [] c = "B" -> "b" [] c = "C" -> "c" [] OTHER -> c

ToLowerCase(s) == [i \in 1..Len(s) |-> LowerChar(s[i])]

\* lines 44-52: the loop with qi characters of q consumed, the last at index lastIdx;
\* it runs on to the next ti with t[ti] = q[qi], or to the end of t
RECURSIVE SubsequenceScan(_, _, _, _, _)
SubsequenceScan(q, t, qi, score, lastIdx) ==
    IF qi < Len(q)
    THEN LET hits == {ti \in (lastIdx + 1)..(Len(t) - 1) : t[ti + 1] = q[qi + 1]}
         IN  IF hits = {} THEN 0
             ELSE LET ti == SetMin(hits)
                  IN  SubsequenceScan(q, t, qi + 1,
                          score + 10 + (IF lastIdx # -1 /\ ti - lastIdx = 1 THEN 5 ELSE 0),
                          ti)
    ELSE score

\* a score without the bonus for adjacent matches
fuzzyScoreNoBonus(query, target) ==
    LET q == ToLowerCase(query)
        t == ToLowerCase(target)
    IN  IF IndexOf(t, q) >= 0 THEN CONTIGUOUS_BASE - IndexOf(t, q)
        ELSE IF SubsequenceScan(q, t, 0, 0, -1) > 0 THEN 10 * Len(q) ELSE 0

fuzzyScore(query, target) ==
    LET q == ToLowerCase(query)
        t == ToLowerCase(target)
    IN  IF IndexOf(t, q) >= 0 THEN CONTIGUOUS_BASE - IndexOf(t, q)
        ELSE SubsequenceScan(q, t, 0, 0, -1)

\* a name of n characters that holds no letter of a query
Filler(n) == [i \in 1..n |-> "x"]

FuzzyQueries == StringsUpTo({"a", "B"}, MaxQueryLen)

ShortTargets == StringsUpTo({"A", "b", "x"}, MaxTargetLen)

\* names that hold a query behind CONTIGUOUS_BASE other characters
LongTargets == {Filler(CONTIGUOUS_BASE) \o t : t \in StringsUpTo({"A", "b"}, MaxQueryLen)}

InitFuzzy ==
    /\ fIn \in [query : FuzzyQueries, t1 : ShortTargets \cup LongTargets, t2 : ShortTargets]
    /\ fOut = <<>>
    /\ CardConstructed
    /\ CodecIdle
    /\ ViewIdle
    /\ remote = <<>>
    /\ remoteSeq = [uid |-> 1, updated |-> 0]
    /\ variant = "www"

\* the query scored against both targets
Score ==
    /\ fOut = <<>>
    /\ fOut' = <<fuzzyScore(fIn.query, fIn.t1), fuzzyScore(fIn.query, fIn.t2)>>
    /\ UNCHANGED <<fIn, viewVars, codecVars, cardVars, net, remote, remoteSeq, sent, lastOp, thrown, clock,
                   burst, variant, editing, fetched, asked, suggestions>>

NextFuzzy == Score

SpecFuzzy == InitFuzzy /\ [][NextFuzzy]_vars

(***************************************************************************)
(* Matcher specification with queries long enough for an adjacent match    *)
(* outside a contiguous one                                                *)
(***************************************************************************)
MaxScanQueryLen == 3    \* longest query of the subsequence scan
MaxScanTargetLen == 4   \* longest target of the subsequence scan

InitScan ==
    /\ fIn \in [query : StringsUpTo({"a", "B"}, MaxScanQueryLen),
                t1 : StringsUpTo({"A", "b", "x"}, MaxScanTargetLen),
                t2 : {<<>>}]
    /\ fOut = <<>>
    /\ CardConstructed
    /\ CodecIdle
    /\ ViewIdle
    /\ remote = <<>>
    /\ remoteSeq = [uid |-> 1, updated |-> 0]
    /\ variant = "www"

NextScan == Score

SpecScan == InitScan /\ [][NextScan]_vars

(***************************************************************************)
(* View projection: _sortItems (lines 231-248) and the two lists of        *)
(* _updateLists (lines 373-376)                                            *)
(***************************************************************************)
\* the letters of the names and categories handed to the projection, in the order
\* of the 'pl' collation
Alphabet == <<"a", "b", "c">>

LetterRank(c) == CHOOSE r \in 1..Len(Alphabet) : Alphabet[r] = LowerChar(c)

\* the letters compared without case, a shorter text before its extensions
RECURSIVE PrimaryCompare(_, _)
PrimaryCompare(a, b) ==
    IF a = <<>> THEN (IF b = <<>> THEN 0 ELSE -1)
    ELSE IF b = <<>> THEN 1
    ELSE IF LetterRank(Head(a)) < LetterRank(Head(b)) THEN -1
    ELSE IF LetterRank(Head(a)) > LetterRank(Head(b)) THEN 1
    ELSE PrimaryCompare(Tail(a), Tail(b))

\* texts with the same letters: the lower case first where they differ
RECURSIVE CaseCompare(_, _)
CaseCompare(a, b) ==
    IF a = <<>> \/ b = <<>> THEN 0
    ELSE IF Head(a) = Head(b) THEN CaseCompare(Tail(a), Tail(b))
    ELSE IF Head(a) = LowerChar(Head(a)) THEN -1 ELSE 1

\* a.localeCompare(b, "pl"): negative, 0 or positive
localeCompare(a, b) ==
    IF PrimaryCompare(a, b) # 0 THEN PrimaryCompare(a, b) ELSE CaseCompare(a, b)

\* the comparator of lines 237-243
CompareByCategory(a, b) ==
    LET catA == ToLowerCase(a.category)
        catB == ToLowerCase(b.category)
    IN  IF catA # <<>> /\ catB = <<>> THEN -1
        ELSE IF catA = <<>> /\ catB # <<>> THEN 1
        ELSE IF catA # catB THEN localeCompare(catA, catB)
        ELSE localeCompare(a.name, b.name)

\* the comparator of line 245
CompareByName(a, b) == localeCompare(a.name, b.name)

ItemCompare(order, a, b) ==
    IF order = "category" THEN CompareByCategory(a, b) ELSE CompareByName(a, b)

\* Array.prototype.sort with a comparator: a stable sort
RECURSIVE InsertSorted(_, _, _)
InsertSorted(order, sorted, x) ==
    IF sorted = <<>> THEN <<x>>
    ELSE IF ItemCompare(order, Head(sorted), x) > 0 THEN <<x>> \o sorted
    ELSE <<Head(sorted)>> \o InsertSorted(order, Tail(sorted), x)

RECURSIVE StableSort(_, _)
StableSort(order, list) ==
    IF list = <<>> THEN <<>>
    ELSE InsertSorted(order, StableSort(order, SubSeq(list, 1, Len(list) - 1)),
                      list[Len(list)])

\* a projection in which the alphabetical setting comes before the grouping
sortItemsAlphabeticalFirst(list, catEnabled, sortBy) ==
    IF sortBy = "alphabetical" THEN StableSort("name", list)
    ELSE IF catEnabled /\ \E i \in 1..Len(list) : list[i].category # <<>>
    THEN StableSort("category", list)
    ELSE list

\* _sortItems(items), with the view preference show_categories and config.sort_by
sortItems(list, catEnabled, sortBy) ==
    LET hasAnyCat == catEnabled /\ \E i \in 1..Len(list) : list[i].category # <<>>
    IN  IF hasAnyCat THEN StableSort("category", list)
        ELSE IF sortBy = "alphabetical" THEN StableSort("name", list)
        ELSE list

\* this._items.filter(i => i.status === status)
RECURSIVE FilterStatus(_, _)
FilterStatus(list, status) ==
    IF list = <<>> THEN <<>>
    ELSE (IF Head(list).status = status THEN <<Head(list)>> ELSE <<>>)
             \o FilterStatus(Tail(list), status)

\* lines 375-376: the two lists rendered, and this._items after it
updateLists(list, catEnabled, sortBy) ==
    [active    |-> sortItems(FilterStatus(list, "needs_action"), catEnabled, sortBy),
     completed |-> sortItems(FilterStatus(list, "completed"), catEnabled, sortBy),
     items     |-> list]

MaxViewLen == 3   \* longest snapshot handed to the projection

ViewNames == { <<"a">>, <<"B">> }

ViewCategories == { <<>>, <<"b">>, <<"c">>, <<"C">> }

\* the snapshots handed to the projection: entry i has the uid i
ViewSnapshots ==
    LET kinds == [name : ViewNames, category : ViewCategories,
                  status : {"needs_action", "completed"}]
    IN  { [i \in 1..Len(ks) |->
              [uid |-> i, name |-> ks[i].name, quantity |-> 1, notes |-> <<>>,
               category |-> ks[i].category, status |-> ks[i].status,
               summary |-> formatSummary(ks[i].name, 1, <<>>, ks[i].category)]]
          : ks \in UNION {[1..n -> kinds] : n \in 0..MaxViewLen} }

InitView ==
    /\ vIn \in [items : ViewSnapshots, show_categories : BOOLEAN,
                sort_by : {"manual", "alphabetical"}]
    /\ vOut = <<>>
    /\ CardConstructed
    /\ CodecIdle
    /\ MatcherIdle
    /\ remote = <<>>
    /\ remoteSeq = [uid |-> 1, updated |-> 0]
    /\ variant = "www"

\* the snapshot projected
Project ==
    /\ vOut = <<>>
    /\ vOut' = <<updateLists(vIn.items, vIn.show_categories, vIn.sort_by)>>
    /\ UNCHANGED <<vIn, codecVars, fuzzyVars, cardVars, net, remote, remoteSeq, sent, lastOp,
                   thrown, clock, burst, variant, editing, fetched, asked, suggestions>>

NextView == Project

SpecView == InitView /\ [][NextView]_vars

(***************************************************************************)
(* Reconciliation engine (class EnhancedShoppingListCard, www variant)     *)
(***************************************************************************)
DEBOUNCE_MS == 500

ListEntity == "todo.shopping"

\* Array.prototype.find by uid: the index of the first entry, 0 when there is none
FindUid(uid) ==
    LET hits == {i \in 1..Len(items) : items[i].uid = uid}
    IN  IF hits = {} THEN 0 ELSE SetMin(hits)

\* find by status and name without toLowerCase
FindNamedExact(status, name) ==
    LET hits == {i \in 1..Len(items) : items[i].status = status /\ items[i].name = name}
    IN  IF hits = {} THEN 0 ELSE SetMin(hits)

\* Array.prototype.find by status and case-insensitive name (lines 213, 217)
FindNamed(status, name) ==
    LET hits == {i \in 1..Len(items) :
                    /\ items[i].status = status
                    /\ ToLowerCase(items[i].name) = ToLowerCase(name)}
    IN  IF hits = {} THEN 0 ELSE SetMin(hits)

RemoveAt(s, i) == SubSeq(s, 1, i - 1) \o SubSeq(s, i + 1, Len(s))

\* a handler without try/catch
Rethrown == TRUE

\* try { await callService } catch { console.error }: whether a rejection escapes
ServiceErrorEscapes == FALSE

\* try { await callWS ... } catch { console.error }: whether a rejection escapes,
\* and the snapshot the catch block leaves
FetchErrorEscapes == FALSE

\* a catch block that blanks the snapshot
ItemsBlanked(old) == <<>>

ItemsAfterRejection(old) == old

\* newQty taken as it comes
Unclamped(newQty) == newQty

\* Math.max(1, newQty)
ClampQty(newQty) == IF newQty > 1 THEN newQty ELSE 1

\* a handler that returns after its write
NoFetchItemsCalls(clear) == <<>>

\* _fetchItems up to its await: the list call it sends, none without hass or entity
FetchItemsCalls(clear) ==
    IF hass = <<>> \/ config = "" THEN <<>> ELSE <<ListCall(clear)>>

\* what runs after `await this._fetchItems()` in _addCurrentInput / _selectSuggestion
AfterFetch(clear, input) == IF clear THEN <<>> ELSE input

\* _hideSuggestions (lines 367-368) where the handler that clears the input ends
SuggestionsAfter(clear) == IF clear THEN [suggestions EXCEPT !.shown = <<>>] ELSE suggestions

\* a decode that keeps the quantity of an armed timer over the store's
DecodeItemsKeepPending(res) ==
    [i \in 1..Len(res) |->
        LET p       == parseSummary(res[i].summary)
            pending == {t \in timers : t.uid = res[i].uid}
        IN  [uid |-> res[i].uid, name |-> p.name,
             quantity |-> IF pending = {} THEN p.qty ELSE (CHOOSE t \in pending : TRUE).q,
             notes |-> p.notes, category |-> p.category, status |-> res[i].status,
             summary |-> res[i].summary]]

\* res.items mapped through parseSummary (lines 115-118)
DecodeItems(res) ==
    [i \in 1..Len(res) |->
        LET p == parseSummary(res[i].summary)
        IN  [uid |-> res[i].uid, name |-> p.name, quantity |-> p.qty, notes |-> p.notes,
             category |-> p.category, status |-> res[i].status, summary |-> res[i].summary]]

(***************************************************************************)
(* The external todo list (hass.callService / hass.callWS)                 *)
(***************************************************************************)
RemoteUids == {remote[i].uid : i \in 1..Len(remote)}

\* whether the store accepts the call: update and remove need known uids
RemoteAccepts(c) ==
    /\ config # ""
    /\ c.svc = "add_item" => remoteSeq.uid <= MaxUid
    /\ c.svc \in {"update_item", "remove_item"} => c.uids \subseteq RemoteUids

RECURSIVE KeepOthers(_, _)
KeepOthers(list, uids) ==
    IF list = <<>> THEN <<>>
    ELSE IF Head(list).uid \in uids THEN KeepOthers(Tail(list), uids)
         ELSE <<Head(list)>> \o KeepOthers(Tail(list), uids)

RemoteApply(c) ==
    CASE c.svc = "add_item" ->
            Append(remote, [uid |-> remoteSeq.uid, summary |-> c.summary[1],
                            description |-> <<>>, status |-> "needs_action"])
      [] c.svc = "update_item" ->
            [i \in 1..Len(remote) |->
                IF remote[i].uid \in c.uids
                THEN [remote[i] EXCEPT
                        !.summary = IF c.summary # <<>> THEN c.summary[1] ELSE @,
                        !.description = IF c.description # <<>> THEN c.description[1] ELSE @,
                        !.status  = IF c.status # "" THEN c.status ELSE @]
                ELSE remote[i]]
      [] c.svc = "remove_item" -> KeepOthers(remote, c.uids)

RemoteSeqAfter(c) ==
    [uid     |-> IF c.svc = "add_item" THEN remoteSeq.uid + 1 ELSE remoteSeq.uid,
     updated |-> remoteSeq.updated + 1]

(***************************************************************************)
(* Inputs of the model                                                     *)
(***************************************************************************)
InitialRemote ==
    << [uid |-> 1, summary |-> <<"A">>, description |-> <<>>, status |-> "needs_action"],
       [uid |-> 2, summary |-> <<"b", " ", "(", "2", ")">>, description |-> <<>>,
        status |-> "completed"] >>

TypedInputs == { <<" ", "a">>, <<"B">>, <<"c">> }

Loaded(build) ==
    /\ variant = build
    /\ CardConstructed
    /\ remote = InitialRemote
    /\ remoteSeq = [uid |-> 3, updated |-> 0]
    /\ CodecIdle
    /\ MatcherIdle
    /\ ViewIdle

Init == Loaded("www")

envVars == <<remote, remoteSeq>>

Spend == clock < MaxClock /\ clock' = clock + 1

InBurst(uid) == \E t \in timers : t.id = qtyTimers[uid] /\ t.left > 0

SpendQty(uid) ==
    IF InBurst(uid) THEN Len(burst[uid]) < MaxBurst /\ clock' = clock ELSE Spend

\* a quantity edit less than 500 ms after the previous one for the uid goes on with
\* its burst; any other starts a burst
BurstAfter(uid, newQty) ==
    [burst EXCEPT ![uid] =
        IF InBurst(uid) THEN Append(@, newQty) ELSE <<newQty>>]

\* one more +1 on uid when the step d is +1
AskedAfter(uid, d) == IF d = 1 THEN [asked EXCEPT ![uid] = @ + 1] ELSE asked

Op(name, uid) == lastOp' = [op |-> name, uid |-> uid, call |-> NoCall, arg |-> <<>>]

\* the step is operation `name` of the host, called with `arg`
OpArg(name, arg) == lastOp' = [op |-> name, uid |-> 0, call |-> NoCall, arg |-> <<arg>>]

\* the step is the continuation of call c
OpOf(name, c) == lastOp' = [op |-> name, uid |-> 0, call |-> c, arg |-> <<>>]

\* the step sends `calls` (at most MaxNet calls are in flight at once)
Send(calls) ==
    /\ Len(net) + Len(calls) <= MaxNet
    /\ net' = net \o calls
    /\ sent' = calls

(***************************************************************************)
(* The inline name editor (_startEditName, lines 681-691) and _updateName  *)
(***************************************************************************)
\* the summary _updateName(item, newName) writes while the snapshot is `snapshot`:
\* category from the snapshot's entry, quantity and notes from the caller's item
RenameSummaryIn(snapshot, item, newName) ==
    LET hits     == {i \in 1..Len(snapshot) : snapshot[i].uid = item.uid}
        category == IF hits # {} THEN snapshot[SetMin(hits)].category ELSE item.category
    IN  formatSummary(Trim(newName), item.quantity, item.notes, category)

\* save() of the editor for the item it captured: the calls it sends
SaveCalls(snapshot, item, value) ==
    IF Trim(value) # <<>> /\ Trim(value) # item.name
    THEN <<ServiceCall("updateName", "update_item", {item.uid},
                       <<RenameSummaryIn(snapshot, item, value)>>, "", NoPatch, FALSE)>>
    ELSE <<>>

\* a re-render replaces the list's innerHTML and so removes the input of an open
\* editor; browsers differ on whether a removed focused input gets its blur event,
\* which runs save() with the item the editor captured
EditorRemoved(snapshot) ==
    IF editing = <<>> THEN {<<>>}
    ELSE {<<>>, SaveCalls(snapshot, items[FindUid(editing[1].uid)], editing[1].value)}

(***************************************************************************)
(* Lifecycle: setConfig and the hass setter                                *)
(***************************************************************************)
\* lines 80-83
setConfig(entity) ==
    /\ variant = "www"
    /\ IF rendered THEN Spend ELSE entity # config /\ clock' = clock
    /\ config' = entity
    /\ IF rendered
       THEN \E saved \in EditorRemoved(items) :
                /\ Send(saved \o (IF entity # "" /\ hass # <<>> THEN <<ListCall(FALSE)>>
                                   ELSE <<>>))
                /\ editing' = <<>>
       ELSE Send(<<>>) /\ editing' = editing
    /\ OpArg("setConfig", entity)
    /\ UNCHANGED <<hass, rendered, items, inputValue, qtyTimers, timers, envVars, thrown, burst,
                   codecVars, fuzzyVars, viewVars, fetched, asked, suggestions, variant>>

\* hass.states[entity] is undefined: the host has no state for the list entity
NoState == -1

\* a comparison that finds a change in every update
EntityAlwaysChanged(old, new) == TRUE

\* !o || o.last_updated !== n?.last_updated (line 103)
EntityChanged(old, new) == old = <<NoState>> \/ old # new

\* lines 92-105: the host hands over the state `new`: the last_updated of the list
\* entity, or NoState
setHassTo(new) ==
    /\ variant = "www"
    /\ hass' = new
    /\ IF ~rendered
       THEN /\ rendered' = TRUE
            /\ clock' = clock
            /\ Send(IF config # "" THEN <<ListCall(FALSE)>> ELSE <<>>)
       ELSE /\ rendered' = rendered
            /\ IF hass # new THEN clock' = clock ELSE Spend
            /\ Send(IF config # "" /\ hass # <<>> /\ EntityChanged(hass, new)
                    THEN <<ListCall(FALSE)>> ELSE <<>>)
    /\ Op("hass", 0)
    /\ UNCHANGED <<config, items, inputValue, qtyTimers, timers, envVars, thrown, burst, codecVars, fuzzyVars, viewVars, fetched, asked, suggestions, variant, editing>>

\* the host hands over its state, in which the list entity has the store's last_updated
setHass == setHassTo(<<remoteSeq.updated>>)

(***************************************************************************)
(* _fetchItems: the list call is served by the store, then its response    *)
(* (or its rejection) reaches the card                                     *)
(***************************************************************************)
ListServed(i) ==
    /\ i \in 1..Len(net)
    /\ net[i].kind = "list" /\ net[i].phase = "sent"
    /\ net' = [net EXCEPT ![i].phase = "served", ![i].res = remote]
    /\ sent' = <<>>
    /\ OpOf("listServed", net[i])
    /\ UNCHANGED <<cardVars, envVars, thrown, clock, burst, codecVars, fuzzyVars, viewVars, fetched, asked, suggestions, variant, editing>>

\* a fetch replaces every object of the snapshot: the li a pending handler holds dies
Detach(calls) == [k \in 1..Len(calls) |-> [calls[k] EXCEPT !.patch.live = FALSE]]

\* lines 114-119 after the await
ListResolved(i) ==
    /\ variant = "www"
    /\ i \in 1..Len(net)
    /\ net[i].kind = "list" /\ net[i].phase = "served"
    /\ items' = DecodeItems(net[i].res)
    /\ inputValue' = AfterFetch(net[i].clear, inputValue)
    /\ suggestions' = SuggestionsAfter(net[i].clear)
    /\ \E saved \in EditorRemoved(DecodeItems(net[i].res)) :
           /\ net' = Detach(RemoveAt(net, i)) \o saved
           /\ sent' = saved
    /\ editing' = <<>>
    /\ fetched' = IF fetched = "failed" THEN "failed" ELSE "ok"
    /\ OpOf("listResolved", net[i])
    /\ UNCHANGED <<config, hass, rendered, qtyTimers, timers, envVars, thrown, clock, burst,
                   codecVars, fuzzyVars, viewVars, asked, variant>>

\* line 120: the list call rejects
ListRejected(i) ==
    /\ variant = "www"
    /\ i \in 1..Len(net)
    /\ net[i].kind = "list"
    /\ net' = RemoveAt(net, i)
    /\ sent' = <<>>
    /\ fetched' = "failed"
    /\ OpOf("listRejected", net[i])
    /\ items' = ItemsAfterRejection(items)
    /\ IF FetchErrorEscapes
       THEN thrown' = TRUE /\ UNCHANGED <<inputValue, suggestions>>
       ELSE /\ thrown' = thrown
            /\ inputValue' = AfterFetch(net[i].clear, inputValue)
            /\ suggestions' = SuggestionsAfter(net[i].clear)
    /\ UNCHANGED <<config, hass, rendered, qtyTimers, timers, envVars, clock, burst, codecVars, fuzzyVars, viewVars, asked, variant, editing>>

(***************************************************************************)
(* _callService: the store settles a todo.<service> call (ok: it did not   *)
(* fail on the way), and the caller goes on after its await                *)
(***************************************************************************)
PatchItem(list, patch) ==
    [k \in 1..Len(list) |->
        IF list[k].uid # patch.uid THEN list[k]
        ELSE IF patch.field = "notes" THEN [list[k] EXCEPT !.notes = patch.value]
        ELSE IF patch.field = "category" THEN [list[k] EXCEPT !.category = patch.value]
        ELSE list[k]]

ServiceSettled(i, ok) ==
    /\ variant = "www"
    /\ i \in 1..Len(net)
    /\ net[i].kind = "service"
    /\ LET c        == net[i]
           accepted == ok /\ RemoteAccepts(c)
           calls    == FetchItemsCalls(c.clear)
       IN  /\ remote' = IF accepted THEN RemoteApply(c) ELSE remote
           /\ remoteSeq' = IF accepted THEN RemoteSeqAfter(c) ELSE remoteSeq
           /\ IF ~accepted /\ ServiceErrorEscapes
              THEN /\ thrown' = TRUE
                   /\ net' = RemoveAt(net, i)
                   /\ sent' = <<>>
                   /\ UNCHANGED <<items, inputValue, suggestions>>
              ELSE /\ thrown' = thrown
                   /\ items' = IF c.patch.live THEN PatchItem(items, c.patch) ELSE items
                   /\ net' = RemoveAt(net, i) \o calls
                   /\ sent' = calls
                   /\ inputValue' = IF calls = <<>> THEN AfterFetch(c.clear, inputValue)
                                    ELSE inputValue
                   /\ suggestions' = SuggestionsAfter(calls = <<>> /\ c.clear)
    /\ OpOf(IF ok /\ RemoteAccepts(net[i]) THEN "serviceResolved" ELSE "serviceRejected",
            net[i])
    /\ UNCHANGED <<config, hass, rendered, qtyTimers, timers, clock, burst, codecVars, fuzzyVars, viewVars, fetched, asked, variant, editing>>

(***************************************************************************)
(* Quantity: optimistic update and debounced write (lines 146-160)         *)
(***************************************************************************)
\* setTimeout hands out a handle no scheduled timeout has
FreshHandle(scheduled) ==
    SetMin({h \in 1..(Cardinality(scheduled) + 1) : \A t \in scheduled : t.id # h})

\* setTimeout without the clearTimeout before it
ArmQtyTimerKeepsOld(uid, closure) ==
    LET h == FreshHandle(timers)
    IN  [timers  |-> timers \cup {[closure EXCEPT !.id = h, !.left = DEBOUNCE_MS]},
         handles |-> [qtyTimers EXCEPT ![uid] = h]]

\* one timeout shared by every uid: arming it clears whatever was scheduled
ArmQtyTimerShared(uid, closure) ==
    [timers  |-> {[closure EXCEPT !.id = 1, !.left = DEBOUNCE_MS]},
     handles |-> [u \in Uids |-> IF u = uid THEN 1 ELSE 0]]

\* clearTimeout(this._qtyTimers[uid]); this._qtyTimers[uid] = setTimeout(..., 500)
ArmQtyTimer(uid, closure) ==
    LET kept == {t \in timers : t.id # qtyTimers[uid]}
        h    == FreshHandle(kept)
    IN  [timers  |-> kept \cup {[closure EXCEPT !.id = h, !.left = DEBOUNCE_MS]},
         handles |-> [qtyTimers EXCEPT ![uid] = h]]

\* the snapshot, the scheduled timeouts and the handles after _updateQuantity(item, newQty)
updateQuantity(item, newQty) ==
    LET q        == ClampQty(newQty)
        li       == FindUid(item.uid)
        name     == IF li > 0 THEN items[li].name ELSE item.name
        notes    == IF li > 0 THEN items[li].notes ELSE item.notes
        category == IF li > 0 THEN items[li].category ELSE item.category
        armed    == ArmQtyTimer(item.uid,
                                [id |-> 0, uid |-> item.uid, name |-> name, q |-> q,
                                 notes |-> notes, category |-> category, left |-> 0])
    IN  [items   |-> IF li > 0
                     THEN [items EXCEPT ![li].quantity = q,
                                        ![li].summary = formatSummary(name, q, notes, category)]
                     ELSE items,
         timers  |-> armed.timers,
         handles |-> armed.handles]

\* the stepper buttons (lines 587-588): d is -1 or +1
QtyStep(k, d) ==
    /\ variant = "www"
    /\ rendered
    /\ editing = <<>>
    /\ k \in 1..Len(items)
    /\ SpendQty(items[k].uid)
    /\ LET r == updateQuantity(items[k], items[k].quantity + d)
       IN  items' = r.items /\ timers' = r.timers /\ qtyTimers' = r.handles
    /\ burst' = BurstAfter(items[k].uid, items[k].quantity + d)
    /\ asked' = AskedAfter(items[k].uid, d)
    /\ Send(<<>>)
    /\ Op("updateQuantity", items[k].uid)
    /\ UNCHANGED <<config, hass, rendered, inputValue, envVars, thrown, codecVars, fuzzyVars, viewVars, fetched, suggestions, variant, editing>>

\* time passes: every scheduled timeout gets closer to firing
Tick ==
    /\ \E t \in timers : t.left > 0
    /\ timers' = {[t EXCEPT !.left = IF @ > TickMs THEN @ - TickMs ELSE 0] : t \in timers}
    /\ sent' = <<>>
    /\ Op("tick", 0)
    /\ UNCHANGED <<config, hass, rendered, items, inputValue, qtyTimers, net, envVars,
                   thrown, clock, burst, codecVars, fuzzyVars, viewVars, fetched, asked, suggestions, variant, editing>>

\* the write the timer callback sends (line 157)
QtyWrite(closure) ==
    ServiceCall("qtyTimer", "update_item", {closure.uid},
                <<formatSummary(closure.name, closure.q, closure.notes, closure.category)>>,
                "", NoPatch, FALSE)

\* the timer callback (lines 155-159) up to its first await
QtyTimerFired(h) ==
    \E t \in timers :
        /\ t.id = h
        /\ t.left = 0
        /\ timers' = timers \ {t}
        /\ qtyTimers' = [qtyTimers EXCEPT ![t.uid] = 0]
        /\ Send(<<QtyWrite(t)>>)
        /\ Op("qtyTimer", t.uid)
        /\ burst' = [burst EXCEPT ![t.uid] = <<>>]
        /\ UNCHANGED <<config, hass, rendered, items, inputValue, envVars, thrown, clock,
                       codecVars, fuzzyVars, viewVars, fetched, asked, suggestions, variant, editing>>

(***************************************************************************)
(* Immediate writes (lines 130-144, 162-208)                               *)
(***************************************************************************)
Immediate(name, uid, call) ==
    /\ rendered /\ Spend
    /\ editing = <<>>
    /\ Send(<<call>>)
    /\ Op(name, uid)
    /\ UNCHANGED <<cardVars, envVars, thrown, burst, codecVars, fuzzyVars, viewVars, fetched, asked, suggestions, variant, editing>>

OtherStatus(s) == IF s = "needs_action" THEN "completed" ELSE "needs_action"

toggleComplete(k) ==
    /\ variant = "www"
    /\ k \in 1..Len(items)
    /\ Immediate("toggleComplete", items[k].uid,
                 ServiceCall("toggleComplete", "update_item", {items[k].uid}, <<>>,
                             OtherStatus(items[k].status), NoPatch, FALSE))

removeItem(k) ==
    /\ variant = "www"
    /\ k \in 1..Len(items)
    /\ Immediate("removeItem", items[k].uid,
                 ServiceCall("removeItem", "remove_item", {items[k].uid}, <<>>, "",
                             NoPatch, FALSE))

\* every uid of the snapshot, whatever its status
AllUids == {items[k].uid : k \in 1..Len(items)}

CompletedUids == {items[k].uid : k \in {j \in 1..Len(items) : items[j].status = "completed"}}

\* lines 203-208: with no completed entry the handler returns at once
clearCompleted ==
    /\ variant = "www"
    /\ IF CompletedUids = {}
       THEN /\ rendered /\ Spend
            /\ editing = <<>>
            /\ Send(<<>>)
            /\ Op("clearCompleted", 0)
            /\ UNCHANGED <<cardVars, envVars, thrown, burst, codecVars, fuzzyVars, viewVars, fetched,
                           asked, suggestions, variant, editing>>
       ELSE Immediate("clearCompleted", 0,
                      ServiceCall("clearCompleted", "remove_item", CompletedUids, <<>>, "",
                                  NoPatch, FALSE))

\* the summary _updateName writes for the caller's item (lines 163-166)
RenameSummary(item, newName) == RenameSummaryIn(items, item, newName)

updateName(k, newName) ==
    /\ variant = "www"
    /\ k \in 1..Len(items)
    /\ Trim(newName) # <<>> /\ Trim(newName) # items[k].name
    /\ Immediate("updateName", items[k].uid,
                 ServiceCall("updateName", "update_item", {items[k].uid},
                             <<RenameSummary(items[k], newName)>>, "", NoPatch, FALSE))

\* a click on the name of an active item opens the editor, and the user types
startEditName(k, value) ==
    /\ variant = "www"
    /\ rendered /\ Spend
    /\ editing = <<>>
    /\ k \in 1..Len(items)
    /\ items[k].status = "needs_action"
    /\ editing' = <<[uid |-> items[k].uid, value |-> value]>>
    /\ Send(<<>>)
    /\ Op("startEditName", items[k].uid)
    /\ UNCHANGED <<config, hass, rendered, items, inputValue, qtyTimers, timers, envVars,
                   thrown, burst, codecVars, fuzzyVars, viewVars, fetched, asked, suggestions, variant>>

\* blur or Enter: save() runs before any other event of the user reaches the card
saveName ==
    /\ editing # <<>>
    /\ Send(SaveCalls(items, items[FindUid(editing[1].uid)], editing[1].value))
    /\ editing' = <<>>
    /\ Op("saveName", editing[1].uid)
    /\ UNCHANGED <<config, hass, rendered, items, inputValue, qtyTimers, timers, envVars,
                   thrown, clock, burst, codecVars, fuzzyVars, viewVars, fetched, asked, suggestions, variant>>

\* a field write that encodes the default quantity 1
FieldWriteDefaultQty(item, field, value) ==
    LET li       == FindUid(item.uid)
        name     == IF li > 0 THEN items[li].name ELSE item.name
        notes    == IF field = "notes" THEN value
                    ELSE IF li > 0 THEN items[li].notes ELSE item.notes
        category == IF field = "category" THEN value
                    ELSE IF li > 0 THEN items[li].category ELSE item.category
    IN  ServiceCall(IF field = "notes" THEN "updateNotes" ELSE "updateCategory",
                    "update_item", {item.uid},
                    <<formatSummary(name, 1, notes, category)>>, "",
                    [field |-> field, uid |-> item.uid, value |-> value, live |-> li > 0],
                    FALSE)

\* lines 171-181 and 183-193: the write, and the patch of li that follows its await
FieldWrite(item, field, value) ==
    LET li       == FindUid(item.uid)
        name     == IF li > 0 THEN items[li].name ELSE item.name
        qty      == IF li > 0 THEN items[li].quantity ELSE item.quantity
        notes    == IF field = "notes" THEN value
                    ELSE IF li > 0 THEN items[li].notes ELSE item.notes
        category == IF field = "category" THEN value
                    ELSE IF li > 0 THEN items[li].category ELSE item.category
    IN  ServiceCall(IF field = "notes" THEN "updateNotes" ELSE "updateCategory",
                    "update_item", {item.uid},
                    <<formatSummary(name, qty, notes, category)>>, "",
                    [field |-> field, uid |-> item.uid, value |-> value, live |-> li > 0],
                    FALSE)

updateNotes(k, notes) ==
    /\ variant = "www"
    /\ k \in 1..Len(items)
    /\ notes # items[k].notes
    /\ Immediate("updateNotes", items[k].uid, FieldWrite(items[k], "notes", notes))

updateCategory(k, category) ==
    /\ variant = "www"
    /\ k \in 1..Len(items)
    /\ Immediate("updateCategory", items[k].uid, FieldWrite(items[k], "category", category))

(***************************************************************************)
(* Smart add (lines 210-229)                                               *)
(***************************************************************************)
onInput(v) ==
    /\ rendered /\ Spend
    /\ editing = <<>>
    /\ v # inputValue
    /\ inputValue' = v
    /\ suggestions' = [suggestions EXCEPT !.pending = TRUE]
    /\ sent' = <<>>
    /\ Op("input", 0)
    /\ UNCHANGED <<config, hass, rendered, items, qtyTimers, timers, net, envVars, thrown, burst, codecVars, fuzzyVars, viewVars, fetched, asked, variant, editing>>

\* an add that always writes the quantity
AddItemCallWithQty(name) ==
    ServiceCall("addItem", "add_item", {}, <<name \o <<" ", "(", "1", ")">> >>, "",
                NoPatch, TRUE)

\* _addItem(name): qty = 1, notes = "", category = "" by default (lines 130-131)
AddItemCall(name) ==
    ServiceCall("addItem", "add_item", {}, <<formatSummary(name, 1, <<>>, <<>>)>>, "",
                NoPatch, TRUE)

\* a reactivation that adds the name again
ReactivateByAdding(item) ==
    ServiceCall("addCurrentInput", "add_item", {}, <<item.name>>, "", NoPatch, TRUE)

\* the update_item of lines 218-222
ReactivateCall(item) ==
    ServiceCall("addCurrentInput", "update_item", {item.uid}, <<>>, "needs_action",
                NoPatch, TRUE)

\* the input taken as it was typed
InputNameUntrimmed(value) == value

\* line 211: (this._inputValue || "").trim()
InputName(value) == Trim(value)

addCurrentInput ==
    LET name   == InputName(inputValue)
        active == FindNamed("needs_action", name)
        done   == FindNamed("completed", name)
    IN  /\ variant = "www"
        /\ rendered /\ Spend
        /\ editing = <<>>
        /\ Op("addCurrentInput", 0)
        /\ IF name = <<>>
           THEN /\ Send(<<>>)
                /\ UNCHANGED <<items, qtyTimers, timers, inputValue, burst, suggestions, asked>>
           ELSE IF active > 0
           THEN /\ LET r == updateQuantity(items[active], items[active].quantity + 1)
                   IN  items' = r.items /\ timers' = r.timers /\ qtyTimers' = r.handles
                /\ burst' = BurstAfter(items[active].uid, items[active].quantity + 1)
                /\ asked' = AskedAfter(items[active].uid, 1)
                /\ Send(<<>>)
                /\ inputValue' = <<>>
                /\ suggestions' = SuggestionsAfter(TRUE)
           ELSE IF done > 0
           THEN /\ Send(<<ReactivateCall(items[done])>>)
                /\ UNCHANGED <<items, qtyTimers, timers, inputValue, burst, suggestions, asked>>
           ELSE /\ Send(<<AddItemCall(name)>>)
                /\ UNCHANGED <<items, qtyTimers, timers, inputValue, burst, suggestions, asked>>
        /\ UNCHANGED <<config, hass, rendered, envVars, thrown, codecVars, fuzzyVars, viewVars, fetched, variant, editing>>

(***************************************************************************)
(* Suggestions (lines 811-843)                                             *)
(***************************************************************************)
MIN_QUERY_LEN == 2

SUGGESTION_LIMIT == 5

\* line 815: the entries of the snapshot the query matches
ScoredItems(q, list) == {i \in 1..Len(list) : fuzzyScore(q, list[i].name) > 0}

\* .sort((a, b) => b.s - a.s): by falling score, equal scores in the order of the list
RECURSIVE SortedByScore(_, _, _)
SortedByScore(q, list, left) ==
    IF left = {} THEN <<>>
    ELSE LET best == CHOOSE i \in left :
                         \A j \in left :
                             \/ fuzzyScore(q, list[i].name) > fuzzyScore(q, list[j].name)
                             \/ /\ fuzzyScore(q, list[i].name) = fuzzyScore(q, list[j].name)
                                /\ i <= j
         IN  <<best>> \o SortedByScore(q, list, left \ {best})

\* no entry dropped for its name
KeepEveryName(list, order, seen) == order

\* lines 816-817: the first entry of every lower-cased name
RECURSIVE UniqueByName(_, _, _)
UniqueByName(list, order, seen) ==
    IF order = <<>> THEN <<>>
    ELSE LET k == ToLowerCase(list[Head(order)].name)
         IN  IF k \in seen THEN UniqueByName(list, Tail(order), seen)
             ELSE <<Head(order)>> \o UniqueByName(list, Tail(order), seen \cup {k})

\* the uids of the suggestions, in the order shown
Suggested(q, list) ==
    LET uniq == UniqueByName(list, SortedByScore(q, list, ScoredItems(q, list)), {})
        n    == IF Len(uniq) < SUGGESTION_LIMIT THEN Len(uniq) ELSE SUGGESTION_LIMIT
    IN  [k \in 1..n |-> list[uniq[k]].uid]

\* the callback of the 300 ms timer the input listener arms (lines 341, 811-834)
updateSuggestions ==
    /\ variant = "www"
    /\ rendered
    /\ suggestions.pending
    /\ suggestions' =
           [pending |-> FALSE,
            shown   |-> IF Len(Trim(inputValue)) < MIN_QUERY_LEN THEN <<>>
                        ELSE Suggested(Trim(inputValue), items)]
    /\ sent' = <<>>
    /\ Op("updateSuggestions", 0)
    /\ UNCHANGED <<cardVars, net, envVars, thrown, clock, burst, codecVars, fuzzyVars, viewVars, fetched,
                   asked, variant, editing>>

\* the update_item of line 838
SuggestionReactivateCall(item) ==
    ServiceCall("selectSuggestion", "update_item", {item.uid}, <<>>, "needs_action",
                NoPatch, TRUE)

\* mousedown on the j-th suggestion (lines 827-831), then _selectSuggestion (836-843)
selectSuggestion(j) ==
    /\ variant = "www"
    /\ rendered
    /\ editing = <<>>
    /\ j \in 1..Len(suggestions.shown)
    /\ FindUid(suggestions.shown[j]) > 0
    /\ LET it == FindUid(suggestions.shown[j])
       IN  /\ Op("selectSuggestion", items[it].uid)
           /\ IF items[it].status = "needs_action"
              THEN /\ SpendQty(items[it].uid)
                   /\ LET r == updateQuantity(items[it], items[it].quantity + 1)
                      IN  items' = r.items /\ timers' = r.timers /\ qtyTimers' = r.handles
                   /\ burst' = BurstAfter(items[it].uid, items[it].quantity + 1)
                   /\ asked' = AskedAfter(items[it].uid, 1)
                   /\ Send(<<>>)
                   /\ inputValue' = <<>>
                   /\ suggestions' = SuggestionsAfter(TRUE)
              ELSE /\ Spend
                   /\ Send(<<SuggestionReactivateCall(items[it])>>)
                   /\ UNCHANGED <<items, qtyTimers, timers, inputValue, burst, suggestions,
                                  asked>>
    /\ UNCHANGED <<config, hass, rendered, envVars, thrown, codecVars, fuzzyVars, viewVars, fetched,
                   variant, editing>>

\* another client of the store completes or reopens the k-th item of the list
ExternalToggle(k) ==
    /\ Spend
    /\ k \in 1..Len(remote)
    /\ remote' = [remote EXCEPT ![k].status = OtherStatus(@)]
    /\ remoteSeq' = [remoteSeq EXCEPT !.updated = @ + 1]
    /\ sent' = <<>>
    /\ Op("external", remote[k].uid)
    /\ UNCHANGED <<cardVars, net, thrown, burst, codecVars, fuzzyVars, viewVars, fetched, asked,
                   suggestions, variant, editing>>

(***************************************************************************)
(* The custom_components build of the card: quantity in the summary, notes *)
(* in the item's description, no debounce and no fetch after a write       *)
(***************************************************************************)
\* (summary || "").match(/^(.+?)\s*\((\d+)\)$/)
parseQuantity(summary) ==
    LET m == TailGroupMatch(summary, "(", ")", "\\d")
    IN  IF m.ok THEN [name |-> Trim(m.g1), qty |-> ParseInt(m.g2)]
        ELSE [name |-> Trim(summary), qty |-> 1]

cc_formatSummary(name, qty) ==
    IF qty > 1 THEN name \o <<" ", "(">> \o NumToStr(qty) \o <<")">> ELSE name

\* a call of this build: the description goes with the call when the handler gives one
cc_ServiceCall(by, svc, uids, summary, status, description) ==
    [ServiceCall(by, svc, uids, summary, status, NoPatch, by = "addCurrentInput")
        EXCEPT !.description = description]

cc_FetchItemsCalls ==
    IF hass = <<>> \/ config = "" THEN <<>> ELSE <<ListCall(FALSE)>>

\* setConfig without the check of lines 64-66
cc_setConfigUnchecked(entity) ==
    /\ variant = "cc"
    /\ IF rendered THEN Spend ELSE entity # config /\ clock' = clock
    /\ thrown' = thrown
    /\ config' = entity
    /\ Send(IF rendered /\ hass # <<>> /\ entity # "" THEN <<ListCall(FALSE)>> ELSE <<>>)
    /\ OpArg("setConfig", entity)
    /\ UNCHANGED <<hass, rendered, items, inputValue, qtyTimers, timers, envVars, burst,
                   codecVars, fuzzyVars, viewVars, fetched, asked, suggestions, variant, editing>>

\* setConfig throws without an entity and leaves the card as it was
cc_setConfig(entity) ==
    /\ variant = "cc"
    /\ IF rendered THEN Spend ELSE entity # config /\ clock' = clock
    /\ IF entity = ""
       THEN /\ thrown' = TRUE
            /\ config' = config
            /\ Send(<<>>)
       ELSE /\ thrown' = thrown
            /\ config' = entity
            /\ Send(IF rendered /\ hass # <<>> THEN <<ListCall(FALSE)>> ELSE <<>>)
    /\ OpArg("setConfig", entity)
    /\ UNCHANGED <<hass, rendered, items, inputValue, qtyTimers, timers, envVars, burst,
                   codecVars, fuzzyVars, viewVars, fetched, asked, suggestions, variant, editing>>

cc_setHass ==
    LET new == <<remoteSeq.updated>>
    IN  /\ variant = "cc"
        /\ hass' = new
        /\ IF ~rendered
           THEN /\ rendered' = TRUE
                /\ clock' = clock
                /\ Send(IF config # "" THEN <<ListCall(FALSE)>> ELSE <<>>)
           ELSE /\ rendered' = rendered
                /\ IF hass # new THEN clock' = clock ELSE Spend
                /\ Send(IF config # "" /\ hass # <<>> /\ hass # new
                        THEN <<ListCall(FALSE)>> ELSE <<>>)
        /\ Op("hass", 0)
        /\ UNCHANGED <<config, items, inputValue, qtyTimers, timers, envVars, thrown, burst,
                       codecVars, fuzzyVars, viewVars, fetched, asked, suggestions, variant, editing>>

\* a decoding that reads the notes out of the summary
cc_DecodeItemsSummaryNotes(res) ==
    [i \in 1..Len(res) |->
        LET p == parseSummary(res[i].summary)
        IN  [uid |-> res[i].uid, name |-> p.name, quantity |-> p.qty,
             notes |-> p.notes, status |-> res[i].status,
             summary |-> res[i].summary]]

\* res.items mapped through parseQuantity (lines 114-117 of this build)
cc_DecodeItems(res) ==
    [i \in 1..Len(res) |->
        LET p == parseQuantity(res[i].summary)
        IN  [uid |-> res[i].uid, name |-> p.name, quantity |-> p.qty,
             notes |-> res[i].description, status |-> res[i].status,
             summary |-> res[i].summary]]

cc_ListResolved(i) ==
    /\ variant = "cc"
    /\ i \in 1..Len(net)
    /\ net[i].kind = "list" /\ net[i].phase = "served"
    /\ items' = cc_DecodeItems(net[i].res)
    /\ net' = RemoveAt(net, i)
    /\ sent' = <<>>
    /\ fetched' = IF fetched = "failed" THEN "failed" ELSE "ok"
    /\ OpOf("listResolved", net[i])
    /\ UNCHANGED <<config, hass, rendered, inputValue, qtyTimers, timers, envVars, thrown,
                   clock, burst, codecVars, fuzzyVars, viewVars, asked, suggestions, variant, editing>>

cc_ListRejected(i) ==
    /\ variant = "cc"
    /\ i \in 1..Len(net)
    /\ net[i].kind = "list"
    /\ net' = RemoveAt(net, i)
    /\ sent' = <<>>
    /\ fetched' = "failed"
    /\ OpOf("listRejected", net[i])
    /\ UNCHANGED <<cardVars, envVars, thrown, clock, burst, codecVars, fuzzyVars, viewVars, asked, suggestions, variant, editing>>

\* the store settles a call of this build; the handler's await returns and nothing
\* else is sent; _addCurrentInput then clears the input
cc_ServiceSettled(i, ok) ==
    /\ variant = "cc"
    /\ i \in 1..Len(net)
    /\ net[i].kind = "service"
    /\ LET accepted == ok /\ RemoteAccepts(net[i])
       IN  /\ remote' = IF accepted THEN RemoteApply(net[i]) ELSE remote
           /\ remoteSeq' = IF accepted THEN RemoteSeqAfter(net[i]) ELSE remoteSeq
           /\ OpOf(IF accepted THEN "serviceResolved" ELSE "serviceRejected", net[i])
    /\ net' = RemoveAt(net, i)
    /\ sent' = <<>>
    /\ inputValue' = AfterFetch(net[i].clear, inputValue)
    /\ suggestions' = SuggestionsAfter(net[i].clear)
    /\ UNCHANGED <<config, hass, rendered, items, qtyTimers, timers, thrown, clock, burst,
                   codecVars, fuzzyVars, viewVars, fetched, asked, variant, editing>>

cc_QtyWrite(by, item, newQty) ==
    cc_ServiceCall(by, "update_item", {item.uid},
                   <<cc_formatSummary(item.name, ClampQty(newQty))>>, "", <<>>)

cc_updateQuantity(k, d) ==
    /\ variant = "cc"
    /\ k \in 1..Len(items)
    /\ Immediate("updateQuantity", items[k].uid,
                 cc_QtyWrite("updateQuantity", items[k], items[k].quantity + d))

cc_toggleComplete(k) ==
    /\ variant = "cc"
    /\ k \in 1..Len(items)
    /\ Immediate("toggleComplete", items[k].uid,
                 cc_ServiceCall("toggleComplete", "update_item", {items[k].uid}, <<>>,
                                OtherStatus(items[k].status), <<>>))

cc_removeItem(k) ==
    /\ variant = "cc"
    /\ k \in 1..Len(items)
    /\ Immediate("removeItem", items[k].uid,
                 cc_ServiceCall("removeItem", "remove_item", {items[k].uid}, <<>>, "", <<>>))

cc_clearCompleted ==
    /\ variant = "cc"
    /\ CompletedUids # {}
    /\ Immediate("clearCompleted", 0,
                 cc_ServiceCall("clearCompleted", "remove_item", CompletedUids, <<>>, "",
                                <<>>))

cc_updateName(k, newName) ==
    /\ variant = "cc"
    /\ k \in 1..Len(items)
    /\ Trim(newName) # <<>> /\ Trim(newName) # items[k].name
    /\ Immediate("updateName", items[k].uid,
                 cc_ServiceCall("updateName", "update_item", {items[k].uid},
                                <<cc_formatSummary(Trim(newName), items[k].quantity)>>, "",
                                <<>>))

cc_updateNotes(k, notes) ==
    /\ variant = "cc"
    /\ k \in 1..Len(items)
    /\ notes # items[k].notes
    /\ Immediate("updateNotes", items[k].uid,
                 cc_ServiceCall("updateNotes", "update_item", {items[k].uid}, <<>>, "",
                                <<notes>>))

cc_addCurrentInput ==
    LET name   == Trim(inputValue)
        active == FindNamed("needs_action", name)
        done   == FindNamed("completed", name)
    IN  /\ variant = "cc"
        /\ rendered /\ Spend
        /\ Op("addCurrentInput", 0)
        /\ Send(IF name = <<>> THEN <<>>
                ELSE IF active > 0
                THEN <<cc_QtyWrite("addCurrentInput", items[active],
                                   items[active].quantity + 1)>>
                ELSE IF done > 0
                THEN <<cc_ServiceCall("addCurrentInput", "update_item", {items[done].uid},
                                      <<>>, "needs_action", <<>>)>>
                ELSE <<cc_ServiceCall("addCurrentInput", "add_item", {},
                                      <<cc_formatSummary(name, 1)>>, "", <<>>)>>)
        /\ UNCHANGED <<cardVars, envVars, thrown, burst, codecVars, fuzzyVars, viewVars, fetched, asked, suggestions, variant, editing>>

(***************************************************************************)
(* The card and its environment                                            *)
(***************************************************************************)
NewNames == { <<"c">> }

NewNotes == { <<"n">> }

NewCategories == { <<"k">> }

Next ==
    \/ \E e \in {"", ListEntity} : setConfig(e)
    \/ setHass
    \/ \E i \in 1..MaxNet : ListServed(i)
    \/ \E i \in 1..MaxNet : ListResolved(i)
    \/ \E i \in 1..MaxNet : ListRejected(i)
    \/ \E i \in 1..MaxNet, ok \in BOOLEAN : ServiceSettled(i, ok)
    \/ \E k \in 1..MaxUid, d \in {-1, 1} : QtyStep(k, d)
    \/ Tick
    \/ \E h \in TimerHandles : QtyTimerFired(h)
    \/ \E k \in 1..MaxUid : toggleComplete(k)
    \/ \E k \in 1..MaxUid : removeItem(k)
    \/ clearCompleted
    \/ \E k \in 1..MaxUid, n \in NewNames : updateName(k, n)
    \/ \E k \in 1..MaxUid, n \in NewNames : startEditName(k, n)
    \/ saveName
    \/ \E k \in 1..MaxUid, n \in NewNotes : updateNotes(k, n)
    \/ \E k \in 1..MaxUid, c \in NewCategories : updateCategory(k, c)
    \/ \E v \in TypedInputs : onInput(v)
    \/ addCurrentInput

Spec == Init /\ [][Next]_vars

(***************************************************************************)
(* The +1 operations alone (stepper, Enter on the name of an active item,  *)
(* click on a suggestion), on names long enough to be suggested, beside a  *)
(* store that fails no call and that another client uses too               *)
(***************************************************************************)
BumpRemote ==
    << [uid |-> 1, summary |-> <<"a", "b">>, description |-> <<>>, status |-> "needs_action"],
       [uid |-> 2, summary |-> <<"a", "b", "b", " ", "(", "2", ")">>, description |-> <<>>,
        status |-> "completed"] >>

BumpInputs == { <<"a", "b">>, <<"A", "B">> }

InitBumps ==
    /\ variant = "www"
    /\ CardConstructed
    /\ remote = BumpRemote
    /\ remoteSeq = [uid |-> 3, updated |-> 0]
    /\ CodecIdle
    /\ MatcherIdle
    /\ ViewIdle

NextBumps ==
    \/ setConfig(ListEntity)
    \/ setHass
    \/ \E i \in 1..MaxNet : ListServed(i)
    \/ \E i \in 1..MaxNet : ListResolved(i)
    \/ \E i \in 1..MaxNet : ServiceSettled(i, TRUE)
    \/ \E k \in 1..MaxUid : QtyStep(k, 1)
    \/ Tick
    \/ \E h \in TimerHandles : QtyTimerFired(h)
    \/ \E v \in BumpInputs : onInput(v)
    \/ updateSuggestions
    \/ \E j \in 1..SUGGESTION_LIMIT : selectSuggestion(j)
    \/ addCurrentInput
    \/ \E k \in 1..MaxUid : ExternalToggle(k)

SpecBumps == InitBumps /\ [][NextBumps]_vars

(***************************************************************************)
(* The add button and the Enter key on inputs with and without a name,     *)
(* while quantity writes are pending                                       *)
(***************************************************************************)
BlankInputs == { <<" ">>, <<" ", " ">>, <<"A">> }

NextBlank ==
    \/ setConfig(ListEntity)
    \/ setHass
    \/ \E i \in 1..MaxNet : ListServed(i)
    \/ \E i \in 1..MaxNet : ListResolved(i)
    \/ \E i \in 1..MaxNet : ServiceSettled(i, TRUE)
    \/ Tick
    \/ \E h \in TimerHandles : QtyTimerFired(h)
    \/ \E k \in 1..MaxUid : QtyStep(k, 1)
    \/ \E v \in BlankInputs : onInput(v)
    \/ addCurrentInput

SpecBlank == Init /\ [][NextBlank]_vars

(***************************************************************************)
(* The card over a store whose summaries other clients wrote               *)
(***************************************************************************)
\* raw summaries the store may hold for its first item
StoreSummaries ==
    { <<"A">>, <<"A", " ", "(", "0", ")">>, <<"A", " ", "(", "3", ")">> }

InitStore ==
    /\ variant = "www"
    /\ CardConstructed
    /\ \E s \in StoreSummaries : remote = [InitialRemote EXCEPT ![1].summary = s]
    /\ remoteSeq = [uid |-> 3, updated |-> 0]
    /\ CodecIdle
    /\ MatcherIdle
    /\ ViewIdle

NextStore ==
    \/ setConfig(ListEntity)
    \/ setHass
    \/ \E i \in 1..MaxNet : ListServed(i)
    \/ \E i \in 1..MaxNet : ListResolved(i)
    \/ \E i \in 1..MaxNet : ServiceSettled(i, TRUE)
    \/ \E k \in 1..MaxUid, d \in {-1, 1} : QtyStep(k, d)
    \/ Tick
    \/ \E h \in TimerHandles : QtyTimerFired(h)

SpecStore == InitStore /\ [][NextStore]_vars

(***************************************************************************)
(* The card under a host whose state may lack the list entity              *)
(***************************************************************************)
\* the states the host may hand over: the list entity as the store has it, or absent
HostStates == { <<remoteSeq.updated>>, <<NoState>> }

NextHost ==
    \/ \E e \in {"", ListEntity} : setConfig(e)
    \/ \E h \in HostStates : setHassTo(h)
    \/ \E i \in 1..MaxNet : ListServed(i)
    \/ \E i \in 1..MaxNet : ListResolved(i)
    \/ \E i \in 1..MaxNet : ListRejected(i)
    \/ \E i \in 1..MaxNet : ServiceSettled(i, TRUE)
    \/ \E k \in 1..MaxUid : toggleComplete(k)

SpecHost == Init /\ [][NextHost]_vars

(***************************************************************************)
(* The card with a user who only toggles the first item                    *)
(***************************************************************************)
NextToggles ==
    \/ setConfig(ListEntity)
    \/ setHass
    \/ \E i \in 1..MaxNet : ListServed(i)
    \/ \E i \in 1..MaxNet : ListResolved(i)
    \/ \E i \in 1..MaxNet : ServiceSettled(i, TRUE)
    \/ toggleComplete(1)

SpecToggles == Init /\ [][NextToggles]_vars

(***************************************************************************)
(* The card with a user who edits notes and categories as free text        *)
(***************************************************************************)
\* what the note textarea may hold on save (line 716: not trimmed)
FieldNotes == { <<"n">>, <<"n", " ">> }

\* what the category input may hold on save (line 762: trimmed), or '' from the
\* remove button
FieldCategories == { <<>>, <<"k">>, <<"k", "]">> }

NextFields ==
    \/ setConfig(ListEntity)
    \/ setHass
    \/ \E i \in 1..MaxNet : ListServed(i)
    \/ \E i \in 1..MaxNet : ListResolved(i)
    \/ \E i \in 1..MaxNet : ServiceSettled(i, TRUE)
    \/ \E k \in 1..MaxUid, n \in FieldNotes : updateNotes(k, n)
    \/ \E k \in 1..MaxUid, c \in FieldCategories : updateCategory(k, c)

SpecFields == InitStore /\ [][NextFields]_vars

(***************************************************************************)
(* The card over a store with more matching names than suggestions shown   *)
(***************************************************************************)
\* names of a store: six that 'ab' matches, one of them in two spellings, and one
\* it does not match
SuggestNames ==
    << <<"a", "b">>, <<"x", "a", "b">>, <<"A", "B">>, <<"a", "x", "b">>, <<"a", "b", "x">>,
       <<"b">>, <<"a", "a", "b">>, <<"a", "b", "b">> >>

\* the names at the positions `keep`, in the order of SuggestNames
RECURSIVE NamesKept(_, _)
NamesKept(keep, from) ==
    IF from > Len(SuggestNames) THEN <<>>
    ELSE (IF from \in keep THEN <<SuggestNames[from]>> ELSE <<>>) \o NamesKept(keep, from + 1)

Reversed(s) == [i \in 1..Len(s) |-> s[Len(s) + 1 - i]]

\* a store that holds the given names as active items with uids 1, 2, ...
StoreOf(names) ==
    [i \in 1..Len(names) |->
        [uid |-> i, summary |-> names[i], description |-> <<>>, status |-> "needs_action"]]

\* what the user may have typed when the 300 ms timer fires
SuggestInputs == { <<"a", "b">>, <<" ", "A", "B">>, <<"a", " ">> }

InitSuggest ==
    /\ variant = "www"
    /\ CardConstructed
    /\ \E keep \in SUBSET (1..Len(SuggestNames)), back \in BOOLEAN :
           remote = StoreOf(IF back THEN Reversed(NamesKept(keep, 1)) ELSE NamesKept(keep, 1))
    /\ remoteSeq = [uid |-> Len(remote) + 1, updated |-> 0]
    /\ CodecIdle
    /\ MatcherIdle
    /\ ViewIdle

NextSuggest ==
    \/ setConfig(ListEntity)
    \/ setHass
    \/ \E i \in 1..MaxNet : ListServed(i)
    \/ \E i \in 1..MaxNet : ListResolved(i)
    \/ \E v \in SuggestInputs : onInput(v)
    \/ updateSuggestions

SpecSuggest == InitSuggest /\ [][NextSuggest]_vars

(***************************************************************************)
(* The custom_components build over a store whose summaries and            *)
(* descriptions other clients wrote, the notes being edited                *)
(***************************************************************************)
DescSummaries ==
    { <<"A">>, <<"A", " ", "/", "/", " ", "x">>,
      <<"A", " ", "(", "2", ")", " ", "/", "/", " ", "x">> }

Descriptions == { <<>>, <<"d">> }

DescNotes == { <<>>, <<"n">>, <<"(", "3", ")">> }

InitNotes ==
    /\ variant = "cc"
    /\ CardConstructed
    /\ \E s \in DescSummaries, d \in Descriptions :
           remote = [InitialRemote EXCEPT ![1].summary = s, ![1].description = d]
    /\ remoteSeq = [uid |-> 3, updated |-> 0]
    /\ CodecIdle
    /\ MatcherIdle
    /\ ViewIdle

NextNotes ==
    \/ cc_setConfig(ListEntity)
    \/ cc_setHass
    \/ \E i \in 1..MaxNet : ListServed(i)
    \/ \E i \in 1..MaxNet : cc_ListResolved(i)
    \/ \E i \in 1..MaxNet : cc_ServiceSettled(i, TRUE)
    \/ \E k \in 1..MaxUid, n \in DescNotes : cc_updateNotes(k, n)

SpecNotes == InitNotes /\ [][NextNotes]_vars

\* either build of the card is loaded
InitVariants == \E build \in {"www", "cc"} : Loaded(build)

NextCC ==
    \/ \E e \in {"", ListEntity} : cc_setConfig(e)
    \/ cc_setHass
    \/ \E i \in 1..MaxNet : cc_ListResolved(i)
    \/ \E i \in 1..MaxNet : cc_ListRejected(i)
    \/ \E i \in 1..MaxNet, ok \in BOOLEAN : cc_ServiceSettled(i, ok)
    \/ \E k \in 1..MaxUid, d \in {-1, 1} : cc_updateQuantity(k, d)
    \/ \E k \in 1..MaxUid : cc_toggleComplete(k)
    \/ \E k \in 1..MaxUid : cc_removeItem(k)
    \/ cc_clearCompleted
    \/ \E k \in 1..MaxUid, n \in NewNames : cc_updateName(k, n)
    \/ \E k \in 1..MaxUid, n \in NewNotes : cc_updateNotes(k, n)
    \/ cc_addCurrentInput

NextVariants == Next \/ NextCC

SpecVariants == InitVariants /\ [][NextVariants]_vars

(***************************************************************************)
(* Properties                                                              *)
(***************************************************************************)
QtyOf(summary) == parseSummary(summary).qty

AtLeastOne(n) == IF n < 1 THEN 1 ELSE n

TimersOf(scheduled, u) == {t \in scheduled : t.uid = u}

\* the burst of u got one more edit in this step
BurstGrew(u) == burst'[u] # <<>> /\ burst'[u] # burst[u]

\* the burst of u ended in this step: its timer fired
BurstEnded(u) == burst[u] # <<>> /\ burst'[u] = <<>>

\* the first active / completed snapshot item with the typed name, 0 when none
TypedName == Trim(inputValue)

SameName(a, b) == ToLowerCase(a) = ToLowerCase(b)

Matches(status) ==
    {k \in 1..Len(items) : items[k].status = status /\ SameName(items[k].name, TypedName)}

IsAddStep == lastOp'.op = "addCurrentInput" /\ TypedName # <<>>

IsSettleOf(by) ==
    /\ lastOp'.op \in {"serviceResolved", "serviceRejected"}
    /\ lastOp'.call.by = by

\* C1: in a burst of quantity edits of one uid, each less than 500 ms after the
\* previous one, no edit sends a write; the burst leaves exactly one timer, armed for
\* the full 500 ms with the clamped value of the last edit; the burst ends when that
\* timer, run down, fires and sends exactly one update_item for the uid that encodes
\* the clamped value of the last edit; and no other step sends a quantity write.
C1_DebounceCoalesces ==
    [][ /\ \A u \in Uids :
            /\ burst'[u] # <<>> =>
                  /\ Cardinality(TimersOf(timers', u)) = 1
                  /\ \A t \in TimersOf(timers', u) :
                        t.q = AtLeastOne(burst'[u][Len(burst'[u])])
            /\ BurstGrew(u) =>
                  /\ sent' = <<>>
                  /\ \A t \in TimersOf(timers', u) : t.left = DEBOUNCE_MS
            /\ BurstEnded(u) =>
                  /\ \A t \in TimersOf(timers, u) : t.left = 0
                  /\ Len(sent') = 1
                  /\ sent'[1].svc = "update_item"
                  /\ sent'[1].uids = {u}
                  /\ sent'[1].summary # <<>>
                  /\ QtyOf(sent'[1].summary[1]) = AtLeastOne(burst[u][Len(burst[u])])
        /\ \A j \in 1..Len(sent') :
              sent'[j].by = "qtyTimer" => \E u \in sent'[j].uids : BurstEnded(u)
      ]_vars

\* C1 witness: the edits 2, 3, 4 of one burst ended in one write that encodes 4
C1_Witness ==
    /\ lastOp.op = "qtyTimer"
    /\ clock = 1
    /\ Len(sent) = 1
    /\ sent[1].svc = "update_item"
    /\ sent[1].uids = {1}
    /\ QtyOf(sent[1].summary[1]) = 4
    /\ \E i \in 1..Len(remote) : remote[i].uid = 1 /\ remote[i].summary = <<"A">>

\* C2: smart add of a name an active snapshot item has (case-insensitively) sends
\* nothing itself, neither add_item nor update_item: it arms the debounce timer of the
\* first such item with the cached quantity + 1, and that timer's firing sends the one
\* update_item, which encodes that quantity.
C2_BumpsActive ==
    [][ /\ (IsAddStep /\ Matches("needs_action") # {}) =>
            LET k == SetMin(Matches("needs_action"))
                u == items[k].uid
            IN  /\ sent' = <<>>
                /\ net' = net
                /\ Cardinality(TimersOf(timers', u)) = 1
                /\ \A t \in TimersOf(timers', u) :
                      /\ t.q = items[k].quantity + 1
                      /\ t.left = DEBOUNCE_MS
                      /\ qtyTimers'[u] = t.id
        /\ lastOp'.op = "qtyTimer" =>
              \A t \in timers \ timers' :
                  /\ Len(sent') = 1
                  /\ sent'[1].svc = "update_item"
                  /\ sent'[1].uids = {t.uid}
                  /\ sent'[1].status = ""
                  /\ QtyOf(sent'[1].summary[1]) = t.q
      ]_vars

\* C2 witness: 'A' is active with quantity 1, ' a' was typed, and the one write of the
\* debounce timer encodes quantity 2
C2_Witness ==
    /\ lastOp.op = "qtyTimer"
    /\ clock = 2
    /\ inputValue = <<>>
    /\ burst = [u \in Uids |-> <<>>]
    /\ Len(sent) = 1
    /\ sent[1].summary = << <<"A", " ", "(", "2", ")">> >>

\* C3: a quantity edit that asks for 0 or less leaves quantity 1 in the snapshot
\* entry, with the summary of quantity 1, and quantity 1 in its timer; every write a
\* debounce timer sends encodes a quantity of at least 1.
C3_QuantityAtLeastOne ==
    [][ /\ \A u \in Uids :
            (BurstGrew(u) /\ burst'[u][Len(burst'[u])] <= 0) =>
                /\ \A k \in 1..Len(items') :
                      items'[k].uid = u =>
                          /\ items'[k].quantity = 1
                          /\ QtyOf(items'[k].summary) = 1
                /\ \A t \in TimersOf(timers', u) : t.q = 1
        /\ \A j \in 1..Len(sent') :
              sent'[j].by = "qtyTimer" =>
                  /\ QtyOf(sent'[j].summary[1]) >= 1
                  /\ \A u \in sent'[j].uids :
                        burst[u][Len(burst[u])] <= 0 => QtyOf(sent'[j].summary[1]) = 1
      ]_vars

\* C3 witness: the quantity 1 of 'A' was stepped down, the snapshot and the timer
\* hold 1, and the timer has run down
C3_Witness ==
    /\ burst[1] = <<0>>
    /\ \E k \in 1..Len(items) : items[k].uid = 1 /\ items[k].quantity = 1
    /\ \E t \in timers : t.uid = 1 /\ t.q = 1 /\ t.left = 0

Contains(s, pat) == IndexOf(s, pat) >= 0

DelimiterFree(s) ==
    /\ ~Contains(s, NoteSep)
    /\ \A i \in 1..Len(s) : s[i] \notin {"(", ")", "[", "]"}

EndsWith(s, suffix) ==
    /\ Len(s) >= Len(suffix)
    /\ SubSeq(s, Len(s) - Len(suffix) + 1, Len(s)) = suffix

\* C4 as stated: every name, quantity >= 1, category and notes without a delimiter
\* token come back from parseSummary(formatSummary(...)) unchanged.
C4_RoundTripDelimiterFree ==
    (/\ cPhase = "decoded"
     /\ cIn.qty >= 1
     /\ DelimiterFree(cIn.name) /\ DelimiterFree(cIn.notes) /\ DelimiterFree(cIn.category))
    => cOut = cIn

\* C4 amended: the fields come back unchanged when, besides, the name is not empty,
\* has no line break and does not end with ' //', and name, notes and category have
\* no leading or trailing whitespace.
C4_RoundTripTrimmed ==
    (/\ cPhase = "decoded"
     /\ cIn.qty >= 1
     /\ DelimiterFree(cIn.name) /\ DelimiterFree(cIn.notes) /\ DelimiterFree(cIn.category)
     /\ cIn.name # <<>>
     /\ Trim(cIn.name) = cIn.name /\ Trim(cIn.notes) = cIn.notes
     /\ Trim(cIn.category) = cIn.category
     /\ ~EndsWith(cIn.name, <<" ", "/", "/">>)
     /\ \A i \in 1..Len(cIn.name) : cIn.name[i] # LineBreak)
    => cOut = cIn

\* C4 witness: 'a /a' with quantity 10, category 'c' and notes 'bb' came back
C4_Witness ==
    /\ cPhase = "decoded"
    /\ cIn = [name |-> <<"a", " ", "/", "a">>, qty |-> 10, notes |-> <<"b", "b">>,
              category |-> <<"c">>]
    /\ cSummary = <<"a", " ", "/", "a", " ", "(", "1", "0", ")", " ", "[", "c", "]",
                    " ", "/", "/", " ", "b", "b">>
    /\ cOut = cIn

QtyWritesInFlight(u) ==
    {i \in 1..Len(net) : net[i].kind = "service" /\ net[i].by = "qtyTimer" /\ u \in net[i].uids}

\* C5 as stated: for every uid, the scheduled debounce timers and the quantity writes
\* sent and not yet settled are at most one together.
C5_OneOutstandingWrite ==
    \A u \in Uids :
        Cardinality(TimersOf(timers, u)) + Cardinality(QtyWritesInFlight(u)) <= 1

\* C5 amended: for every uid at most one debounce timer is scheduled, the one
\* _qtyTimers holds; a newer quantity edit replaces it by one armed for 500 ms with
\* the new clamped value, and leaves the calls in flight as they are.
C5_OneTimerPerUid ==
    [][ \A u \in Uids :
            /\ Cardinality(TimersOf(timers', u)) <= 1
            /\ \A t \in TimersOf(timers', u) : qtyTimers'[u] = t.id
            /\ BurstGrew(u) =>
                  /\ net' = net
                  /\ \E t \in TimersOf(timers', u) :
                        /\ t.left = DEBOUNCE_MS
                        /\ t.q = AtLeastOne(burst'[u][Len(burst'[u])])
      ]_vars

\* C5 witness: a quantity write for uid 1 is in flight and a newer edit has its timer
C5_Witness ==
    /\ lastOp.op = "updateQuantity"
    /\ QtyWritesInFlight(1) # {}
    /\ Cardinality(TimersOf(timers, 1)) = 1

\* C6: smart add of a name no active snapshot item has and a completed one has sends
\* exactly one update_item, for the first such item, with status needs_action and no
\* summary; it sends no add_item and touches no timer and no snapshot entry; when that
\* call has settled, resolved or rejected, the list call of _fetchItems is sent.
C6_ReactivatesCompleted ==
    [][ /\ (IsAddStep /\ Matches("needs_action") = {} /\ Matches("completed") # {}) =>
            LET k == SetMin(Matches("completed"))
            IN  /\ Len(sent') = 1
                /\ sent'[1].kind = "service"
                /\ sent'[1].svc = "update_item"
                /\ sent'[1].uids = {items[k].uid}
                /\ sent'[1].status = "needs_action"
                /\ sent'[1].summary = <<>>
                /\ timers' = timers /\ qtyTimers' = qtyTimers
                /\ items' = items
        /\ (IsSettleOf("addCurrentInput") /\ config # "") =>
              /\ Len(sent') = 1
              /\ sent'[1].kind = "list"
              /\ timers' = timers
      ]_vars

\* C6 witness: 'B' was typed while 'b' was completed, the store reactivated it and
\* the list call that follows is in flight
C6_Witness ==
    /\ lastOp.op = "serviceResolved"
    /\ lastOp.call.by = "addCurrentInput"
    /\ \E i \in 1..Len(remote) : remote[i].uid = 2 /\ remote[i].status = "needs_action"
    /\ Len(sent) = 1 /\ sent[1].kind = "list"
    /\ Len(remote) = 2

\* C7: smart add of a name no snapshot item has sends exactly one add_item whose
\* summary is the trimmed name itself, which decodes to quantity 1 without category
\* and notes; it sends no update_item and touches no timer; when that call has
\* settled, resolved or rejected, the list call of _fetchItems is sent.
C7_AddsNew ==
    [][ /\ (IsAddStep /\ Matches("needs_action") = {} /\ Matches("completed") = {}) =>
            /\ Len(sent') = 1
            /\ sent'[1].kind = "service"
            /\ sent'[1].svc = "add_item"
            /\ sent'[1].summary = <<TypedName>>
            /\ parseSummary(sent'[1].summary[1]) =
                  [name |-> TypedName, qty |-> 1, notes |-> <<>>, category |-> <<>>]
            /\ timers' = timers /\ qtyTimers' = qtyTimers
            /\ items' = items
        /\ (IsSettleOf("addItem") /\ config # "") =>
              /\ Len(sent') = 1
              /\ sent'[1].kind = "list"
              /\ timers' = timers
      ]_vars

\* C7 witness: 'c' was typed, the store holds it as a third item, and the list call
\* that follows is in flight
C7_Witness ==
    /\ lastOp.op = "serviceResolved"
    /\ lastOp.call.by = "addItem"
    /\ Len(remote) = 3
    /\ remote[3].summary = <<"c">>
    /\ Len(sent) = 1 /\ sent[1].kind = "list"

\* C8: when the list call of _fetchItems rejects, the snapshot is what it was before,
\* nothing is thrown, and the caller goes on: an add that awaited it clears the input.
C8_RejectedFetchKeepsSnapshot ==
    [][ lastOp'.op = "listRejected" =>
            /\ items' = items
            /\ ~thrown'
            /\ inputValue' = IF lastOp'.call.clear THEN <<>> ELSE inputValue
      ]_vars

\* C8 witness: a list call was rejected while the snapshot held two items
C8_Witness ==
    /\ lastOp.op = "listRejected"
    /\ Len(items) = 2
    /\ ~thrown

ItemFields(it) ==
    [name |-> it.name, qty |-> it.quantity, notes |-> it.notes, category |-> it.category]

\* the rejected call asked for a summary the store does not hold for the uid
FailedChange(c, u) ==
    /\ c.svc = "update_item" /\ c.summary # <<>> /\ u \in c.uids
    /\ \A i \in 1..Len(remote) : remote[i].uid = u => remote[i].summary # c.summary[1]

\* C9 as stated: when a write is rejected, nothing is thrown and no snapshot entry
\* shows the fields the failed write asked for.
C9_FailedChangeNotShown ==
    [][ lastOp'.op = "serviceRejected" =>
            /\ ~thrown'
            /\ \A k \in 1..Len(items') :
                  FailedChange(lastOp'.call, items'[k].uid) =>
                      ItemFields(items'[k]) # parseSummary(lastOp'.call.summary[1])
      ]_vars

\* C9 amended: when a write is rejected, nothing is thrown and the snapshot is not
\* rolled back: it keeps what it held (the optimistic quantity
\* included) and takes the notes or category the handler patches after its await; a
\* list call that resolves replaces the snapshot by what the store served.
C9_FailureCaughtNoRollback ==
    [][ /\ lastOp'.op = "serviceRejected" =>
            /\ ~thrown'
            /\ Len(items') = Len(items)
            /\ \A k \in 1..Len(items) :
                  \/ items'[k] = items[k]
                  \/ /\ lastOp'.call.patch.live
                     /\ items[k].uid = lastOp'.call.patch.uid
                     /\ lastOp'.call.patch.field = "notes"
                     /\ items'[k] = [items[k] EXCEPT !.notes = lastOp'.call.patch.value]
                  \/ /\ lastOp'.call.patch.live
                     /\ items[k].uid = lastOp'.call.patch.uid
                     /\ lastOp'.call.patch.field = "category"
                     /\ items'[k] = [items[k] EXCEPT !.category = lastOp'.call.patch.value]
        /\ lastOp'.op = "listResolved" =>
              /\ Len(items') = Len(lastOp'.call.res)
              /\ \A k \in 1..Len(items') :
                    /\ items'[k].uid = lastOp'.call.res[k].uid
                    /\ items'[k].summary = lastOp'.call.res[k].summary
                    /\ ItemFields(items'[k]) = parseSummary(lastOp'.call.res[k].summary)
      ]_vars

\* C9 witness: the debounced write of quantity 2 was rejected, the store still holds
\* 'A', and the snapshot shows quantity 2
C9_Witness ==
    /\ lastOp.op = "serviceRejected"
    /\ lastOp.call.by = "qtyTimer"
    /\ ~thrown
    /\ \E i \in 1..Len(remote) : remote[i].uid = 1 /\ remote[i].summary = <<"A">>
    /\ \E k \in 1..Len(items) : items[k].uid = 1 /\ items[k].quantity = 2

Mutators ==
    {"addItem", "addCurrentInput", "toggleComplete", "removeItem", "clearCompleted",
     "updateName", "updateNotes", "updateCategory", "updateQuantity", "qtyTimer"}

IsMutationSettled ==
    /\ lastOp'.op \in {"serviceResolved", "serviceRejected"}
    /\ lastOp'.call.by \in Mutators

ListCallsIn(calls) == {j \in 1..Len(calls) : calls[j].kind = "list"}

\* the step sends a write from a handler of its own; a step that renders the card
\* anew over an open name editor also runs the editor's blur handler, whose rename
\* goes out beside whatever the step itself sends
SendsWrite ==
    /\ \E j \in 1..Len(sent') : sent'[j].kind = "service"
    /\ ~(editing # <<>> /\ lastOp'.op \in {"setConfig", "listResolved"})

\* C10 as stated: the step in which a write of a mutating handler settles, resolved
\* or rejected, sends the list call of fetchAll (an entity being configured), and the
\* step that sends the write sends no list call.
C10_FetchFollowsEveryWrite ==
    [][ /\ (IsMutationSettled /\ config # "") =>
              Len(sent') = 1 /\ sent'[1].kind = "list"
        /\ SendsWrite => ListCallsIn(sent') = {}
      ]_vars

\* C10 amended: that holds of the www build; in the custom_components build the step
\* in which a write settles sends nothing, and a list call is sent only by the hass
\* setter and setConfig.
C10_FetchFollowsWriteInWww ==
    [][ /\ (variant = "www" /\ IsMutationSettled /\ config # "") =>
              Len(sent') = 1 /\ sent'[1].kind = "list"
        /\ SendsWrite => ListCallsIn(sent') = {}
        /\ (variant = "cc" /\ IsMutationSettled) => sent' = <<>>
        /\ (variant = "cc" /\ ListCallsIn(sent') # {}) => lastOp'.op \in {"hass", "setConfig"}
      ]_vars

\* C10 witness: in the www build the debounced quantity write was rejected and the
\* list call that follows it is in flight
C10_Witness ==
    /\ variant = "www"
    /\ lastOp.op = "serviceRejected"
    /\ lastOp.call.by = "qtyTimer"
    /\ Len(sent) = 1
    /\ sent[1].kind = "list"
    /\ sent[1].phase = "sent"

RenameWrites(calls) == {j \in 1..Len(calls) : calls[j].by = "updateName"}

\* C11 as stated: every summary a rename sends encodes, beside the new name, the
\* quantity, category and notes the snapshot holds for the uid when the call is made.
C11_RenameWritesCurrentFields ==
    [][ \A j \in RenameWrites(sent') :
            \A k \in 1..Len(items') :
                items'[k].uid \in sent'[j].uids =>
                    LET p == parseSummary(sent'[j].summary[1])
                    IN  /\ p.qty = items'[k].quantity
                        /\ p.notes = items'[k].notes
                        /\ p.category = items'[k].category
      ]_vars

ActiveNames(list) ==
    {i \in 1..Len(list) : list[i].status = "needs_action"}

\* C12 as stated: the store's list never holds two active items whose names are equal
\* case-insensitively, whatever smart adds were made and however they overlapped.
C12_NoDuplicateActive ==
    \A i, j \in ActiveNames(remote) :
        i # j => ~SameName(parseSummary(remote[i].summary).name,
                           parseSummary(remote[j].summary).name)


\* formatSummary applied to the fields parseSummary reads from a summary
Reencoded(summary) ==
    LET f == parseSummary(summary)
    IN  formatSummary(f.name, f.qty, f.notes, f.category)

\* C13 as stated: every summary formatSummary produces from a name, a quantity >= 1,
\* notes and a category is reproduced by formatSummary from the fields parseSummary
\* reads from it.
C13_ReencodeReturnsSummary ==
    (cPhase = "decoded" /\ cIn.qty >= 1) => Reencoded(cSummary) = cSummary

\* C13 amended: the summary is reproduced when it was produced from a non-empty name
\* that does not end with ' //', and from name, notes and category that have no
\* delimiter token and no leading or trailing whitespace.
C13_ReencodeTrimmed ==
    (/\ cPhase = "decoded"
     /\ cIn.qty >= 1
     /\ DelimiterFree(cIn.name) /\ DelimiterFree(cIn.notes) /\ DelimiterFree(cIn.category)
     /\ cIn.name # <<>>
     /\ Trim(cIn.name) = cIn.name /\ Trim(cIn.notes) = cIn.notes
     /\ Trim(cIn.category) = cIn.category
     /\ ~EndsWith(cIn.name, <<" ", "/", "/">>))
    => Reencoded(cSummary) = cSummary

\* C13 witness: 'a<line break>a' with quantity 2, category 'c' and notes 'b' does not
\* come back from parseSummary, and its summary is reproduced all the same
C13_Witness ==
    /\ cPhase = "decoded"
    /\ cIn = [name |-> <<"a", LineBreak, "a">>, qty |-> 2, notes |-> <<"b">>,
              category |-> <<"c">>]
    /\ cOut # cIn
    /\ Reencoded(cSummary) = cSummary


\* q[qi..] can be found in order in t behind position p, taking each leftmost character
RECURSIVE EmbedsFrom(_, _, _, _)
EmbedsFrom(q, t, qi, p) ==
    IF qi > Len(q) THEN TRUE
    ELSE LET hits == {j \in (p + 1)..Len(t) : t[j] = q[qi]}
         IN  hits # {} /\ EmbedsFrom(q, t, qi + 1, SetMin(hits))

IsSubsequence(query, target) == EmbedsFrom(ToLowerCase(query), ToLowerCase(target), 1, 0)

IsSubstring(query, target) == Contains(ToLowerCase(target), ToLowerCase(query))

\* C14 as stated: a target that holds the query as a contiguous substring scores higher
\* than a target that holds it only as a non-contiguous subsequence.
C14_ContiguousOutranks ==
    (/\ fOut # <<>>
     /\ IsSubstring(fIn.query, fIn.t1)
     /\ IsSubsequence(fIn.query, fIn.t2) /\ ~IsSubstring(fIn.query, fIn.t2))
    => fOut[1] > fOut[2]

\* C15 as stated: the score is 0 when the query is not a subsequence of the target,
\* and above 0 when a non-empty query is a subsequence of it.
C15_ZeroIffNotSubsequence ==
    fOut # <<>> =>
        /\ ~IsSubsequence(fIn.query, fIn.t1) => fOut[1] = 0
        /\ (fIn.query # <<>> /\ IsSubsequence(fIn.query, fIn.t1)) => fOut[1] > 0


\* the step is setConfig called with a configuration that has no list entity
SetConfigWithoutEntity ==
    /\ lastOp'.op = "setConfig"
    /\ lastOp'.arg = <<"">>

\* C16 as stated: setConfig without the list entity fails with an error, stores no
\* configuration and issues no fetch.
C16_SetConfigWithoutEntityFails ==
    [][SetConfigWithoutEntity =>
        /\ thrown'
        /\ config' = config
        /\ ListCallsIn(sent') = {}]_vars

\* C16 amended: setConfig without the list entity issues no fetch; the build under
\* custom_components fails with an error and keeps the configuration it had, the
\* build under www raises no error and stores the configuration.
C16_SetConfigWithoutEntityByBuild ==
    [][SetConfigWithoutEntity =>
        /\ ListCallsIn(sent') = {}
        /\ variant = "cc" => (thrown' /\ config' = config)
        /\ variant = "www" => (thrown' = thrown /\ config' = "")]_vars

\* C16 witness: the rendered card of the custom_components build was handed a
\* configuration without entity, threw, and still holds the entity it had
C16_Witness ==
    /\ variant = "cc"
    /\ rendered
    /\ lastOp.op = "setConfig" /\ lastOp.arg = <<"">>
    /\ thrown
    /\ config = ListEntity


\* nothing is pending: no debounce timer, no call in flight, the list calls made
\* have succeeded and the host has handed over the state of the store's latest change
Quiescent ==
    /\ rendered /\ config # ""
    /\ timers = {}
    /\ net = <<>>
    /\ fetched = "ok"
    /\ hass = <<remoteSeq.updated>>

\* C17 as stated: whenever nothing is pending, the snapshot is the decoded list of
\* the store.
C17_QuiescentSnapshotCurrent ==
    Quiescent => items = DecodeItems(remote)


\* the debounced quantity writes among `calls`
QtyWrites(calls) ==
    {k \in 1..Len(calls) : calls[k].by = "qtyTimer"}

\* C18 as stated: the summary a debounced quantity write sends encodes the name, the
\* notes and the category the snapshot holds for the item when the write is sent.
C18_DebouncedWriteUsesCurrentFields ==
    [][\A k \in QtyWrites(sent') :
          \A u \in sent'[k].uids :
              LET li == FindUid(u)
                  f  == parseSummary(sent'[k].summary[1])
              IN  li > 0 =>
                      /\ f.name = items[li].name
                      /\ f.notes = items[li].notes
                      /\ f.category = items[li].category]_vars


\* the quantity the store held for uid u at the start (1 for an item added later)
InitialQty(u) == IF u <= Len(BumpRemote) THEN QtyOf(BumpRemote[u].summary) ELSE 1

\* the position of uid u in the store's list, 0 when it is not there
RemoteIndex(u) ==
    LET hits == {i \in 1..Len(remote) : remote[i].uid = u}
    IN  IF hits = {} THEN 0 ELSE SetMin(hits)

\* every write the +1 operations on u led to has been made: no timer is armed for u
\* and no service call is in flight
BumpsWritten(u) ==
    /\ asked[u] > 0
    /\ TimersOf(timers, u) = {}
    /\ \A i \in 1..Len(net) : net[i].kind # "service"

\* C19 as stated: once the writes of n successive +1 operations on an active item have
\* been made, the store holds its initial quantity plus n, whatever list calls
\* resolved in between.
C19_EveryBumpCounted ==
    \A u \in Uids :
        (/\ RemoteIndex(u) > 0
         /\ remote[RemoteIndex(u)].status = "needs_action"
         /\ BumpsWritten(u))
        => QtyOf(remote[RemoteIndex(u)].summary) = InitialQty(u) + asked[u]


\* C20 as stated: while the debounce timer of a quantity write is armed for a uid of
\* the snapshot, the snapshot shows the quantity the timer will write.
C20_SnapshotShowsPendingTarget ==
    \A t \in timers :
        FindUid(t.uid) > 0 => items[FindUid(t.uid)].quantity = t.q

(***************************************************************************)
(* C21: a removed item gets no quantity write                              *)
(***************************************************************************)
\* a remove_item call naming u (from _removeItem or _clearCompleted) has been sent
\* and is still on its way
RemoveInFlight(u) ==
    \E i \in 1..Len(net) :
        net[i].kind = "service" /\ net[i].svc = "remove_item" /\ u \in net[i].uids

\* the store handed out u and no longer holds it: only a remove deletes an entry
RemovedFromStore(u) == u < remoteSeq.uid /\ u \notin RemoteUids

\* C21 as stated: once a remove (of the single item, or of the completed items) has
\* been issued for a uid, no quantity update_item for that uid is sent: a debounce
\* timer still armed for the removed item leads to no remote write.
C21_NoQtyWriteAfterRemove ==
    [][\A j \in 1..Len(sent') :
           sent'[j].by = "qtyTimer"
           => \A u \in sent'[j].uids : ~RemoveInFlight(u) /\ ~RemovedFromStore(u)]_vars

(***************************************************************************)
(* C22: what a quantity edit changes in the snapshot                       *)
(***************************************************************************)
\* the step is _updateQuantity for uid u: a stepper, or an add that bumps u
SetsQuantity(u) ==
    \/ lastOp'.op = "updateQuantity" /\ lastOp'.uid = u
    \/ asked'[u] # asked[u]

\* the quantity the step asked for
RequestedQty(u) == burst'[u][Len(burst'[u])]

\* entry b is entry a but for its quantity and the raw summary kept with it
SameButQuantity(a, b) ==
    [b EXCEPT !.quantity = a.quantity, !.summary = a.summary] = a

\* C22: a quantity edit sets the snapshot entry of the item to the clamped quantity
\* in the step of the edit itself, in which no remote call is issued and the store
\* is not touched; every other entry of the snapshot, and the uid, name, category,
\* notes and status of the edited entry, stay as they were.
C22_SetQuantityFrame ==
    [][\A u \in Uids :
           SetsQuantity(u) =>
               /\ Len(items') = Len(items)
               /\ \A k \in 1..Len(items) :
                      IF items[k].uid = u
                      THEN /\ items'[k].quantity = AtLeastOne(RequestedQty(u))
                           /\ SameButQuantity(items[k], items'[k])
                      ELSE items'[k] = items[k]
               /\ sent' = <<>> /\ net' = net /\ remote' = remote]_vars

\* C22 witness: 'b (2)' was stepped down to 1 next to the untouched entry 'A', and
\* nothing has been sent for it
C22_Witness ==
    /\ lastOp.op = "updateQuantity" /\ lastOp.uid = 2
    /\ burst[2] = <<1>>
    /\ Len(items) = 2
    /\ items[1].name = <<"A">> /\ items[1].quantity = 1
    /\ items[2].name = <<"b">> /\ items[2].quantity = 1 /\ items[2].status = "completed"
    /\ net = <<>>

(***************************************************************************)
(* C23: the pending writes of different items are independent              *)
(***************************************************************************)
\* the quantity writes in `calls` for uid u
QtyWritesFor(calls, u) ==
    {j \in 1..Len(calls) : calls[j].by = "qtyTimer" /\ u \in calls[j].uids}

\* C23: a quantity edit on one item leaves the armed timer, the timer handle and the
\* in-flight quantity write of every other item as they were; the write a timer sends
\* for an item carries the last quantity requested for that item (clamped), and
\* sending it leaves the timers of the other items armed.
C23_PendingWritesIndependent ==
    [][\A u \in Uids :
           /\ SetsQuantity(u) =>
                  \A v \in Uids \ {u} :
                      /\ TimersOf(timers', v) = TimersOf(timers, v)
                      /\ qtyTimers'[v] = qtyTimers[v]
                      /\ {net'[j] : j \in QtyWritesFor(net', v)}
                             = {net[j] : j \in QtyWritesFor(net, v)}
           /\ \A j \in QtyWritesFor(sent', u) :
                  /\ QtyOf(sent'[j].summary[1]) = AtLeastOne(burst[u][Len(burst[u])])
                  /\ \A v \in Uids \ {u} :
                         TimersOf(timers', v) = TimersOf(timers, v)]_vars

\* C23 witness: 'A' was stepped up to 2 and 'b' up to 3, and the two writes, each
\* with its own quantity, are in flight together
C23_Witness ==
    /\ Len(net) = 2
    /\ QtyWritesFor(net, 1) = {1} /\ QtyOf(net[1].summary[1]) = 2
    /\ QtyWritesFor(net, 2) = {2} /\ QtyOf(net[2].summary[1]) = 3

(***************************************************************************)
(* C24: a list response replaces the snapshot                              *)
(***************************************************************************)
\* C24: when a list call resolves, the snapshot becomes the response's items in the
\* response's order: each entry has the uid and status of its response item and the
\* name, quantity, category and notes parseSummary reads from its raw summary; nothing
\* of the snapshot before the response is left.
C24_ResponseReplacesSnapshot ==
    [][lastOp'.op = "listResolved" =>
           LET res == lastOp'.call.res
           IN  /\ Len(items') = Len(res)
               /\ \A k \in 1..Len(res) :
                      /\ items'[k].uid = res[k].uid
                      /\ items'[k].status = res[k].status
                      /\ items'[k].name = parseSummary(res[k].summary).name
                      /\ items'[k].quantity = parseSummary(res[k].summary).qty
                      /\ items'[k].category = parseSummary(res[k].summary).category
                      /\ items'[k].notes = parseSummary(res[k].summary).notes]_vars

\* C24 witness: a list response with 'b (2)' has just replaced a snapshot in which
\* 'b' had been stepped up to 3; the timer of that edit is still armed
C24_Witness ==
    /\ lastOp.op = "listResolved"
    /\ Len(lastOp.call.res) = 2
    /\ \E t \in timers : t.uid = 2 /\ t.q = 3
    /\ Len(items) = 2
    /\ items[2].uid = 2 /\ items[2].name = <<"b">> /\ items[2].quantity = 2

(***************************************************************************)
(* C25: quantities of the snapshot                                         *)
(***************************************************************************)
\* C25 as stated: every item of the snapshot has a quantity of at least 1, whatever
\* raw summaries the store returns (one such as 'A (0)' too) and whatever quantity
\* edits are applied.
C25_SnapshotQuantityAtLeastOne ==
    \A k \in 1..Len(items) : items[k].quantity >= 1

(***************************************************************************)
(* C26: which steps insert or delete a snapshot entry                      *)
(***************************************************************************)
\* the uids of a snapshot, in its order
UidsOf(list) == [k \in 1..Len(list) |-> list[k].uid]

\* C26: the uids of the snapshot change only in the step in which a list call
\* resolves. The snapshot starts empty, so it is empty until the first list response;
\* no add, quantity edit, toggle, remove, rename, notes or category edit, and no
\* settled or rejected call, inserts or deletes an entry.
C26_IdsChangeOnlyOnFetch ==
    [][UidsOf(items') # UidsOf(items) => lastOp'.op = "listResolved"]_vars

\* C26 witness: the store has carried out the remove of 'A' and no longer holds it,
\* while the snapshot, not fetched again yet, still has its entry
C26_Witness ==
    /\ lastOp.op = "serviceResolved"
    /\ lastOp.call.svc = "remove_item"
    /\ 1 \notin RemoteUids
    /\ UidsOf(items) = <<1, 2>>

(***************************************************************************)
(* C27: which host updates fetch                                           *)
(***************************************************************************)
\* the step is an assignment of hass
HassAssigned == lastOp'.op = "hass"

\* the last_updated of the list entity in the new host state is not that of the
\* previous one, or the previous host state had no state for the entity
LastUpdatedDiffers == hass = <<NoState>> \/ hass' # hass

\* C27: with an entity configured, an assignment of hass after the first render sends
\* one list call when the entity's last_updated differs from that of the previous
\* host state or the entity had no previous state, and sends nothing otherwise; the
\* first assignment of hass sends a list call only if an entity is configured.
C27_FetchOnChangedEntity ==
    [][HassAssigned =>
           /\ (rendered /\ config # "") =>
                  /\ LastUpdatedDiffers => Len(sent') = 1 /\ ListCallsIn(sent') = {1}
                  /\ ~LastUpdatedDiffers => sent' = <<>>
           /\ ~rendered => (ListCallsIn(sent') # {} => config # "")]_vars

\* C27 witness: after the first render the store changed, and the host's update with
\* the new last_updated has just sent a list call
C27_Witness ==
    /\ lastOp.op = "hass"
    /\ hass = <<1>>
    /\ clock = 1
    /\ fetched = "ok"
    /\ ListCallsIn(sent) = {1}

(***************************************************************************)
(* C28: toggling twice                                                     *)
(***************************************************************************)
\* the store has carried out n writes and no write is on its way
WritesDone(n) ==
    /\ remoteSeq.updated = n
    /\ \A i \in 1..Len(net) : net[i].kind # "service"

\* C28 as stated: when the first item was toggled twice and the store has carried out
\* both writes, the item has its original status in the store, also when the second
\* toggle was issued before the list call after the first had resolved.
C28_TwoTogglesRestoreStatus ==
    WritesDone(2) => remote[1].status = InitialRemote[1].status

(***************************************************************************)
(* C29: clearCompleted                                                     *)
(***************************************************************************)
\* the uids of the snapshot entries with the given status
UidsWithStatus(status) ==
    {items[k].uid : k \in {j \in 1..Len(items) : items[j].status = status}}

\* the step is the settling of the remove call of _clearCompleted
ClearSettled ==
    /\ lastOp'.op \in {"serviceResolved", "serviceRejected"}
    /\ lastOp'.call.by = "clearCompleted"

\* C29: _clearCompleted sends one remove_item call whose uids are the uids of the
\* completed entries of the snapshot, no uid of an active entry among them, and no
\* list call with it; when that call has settled, one list call is sent (an entity
\* being configured). With no completed entry in the snapshot the handler sends
\* nothing, and no list call follows.
C29_ClearsExactlyCompleted ==
    [][ /\ lastOp'.op = "clearCompleted" =>
              IF UidsWithStatus("completed") = {}
              THEN sent' = <<>> /\ net' = net
              ELSE /\ Len(sent') = 1
                   /\ sent'[1].svc = "remove_item"
                   /\ sent'[1].uids = UidsWithStatus("completed")
                   /\ sent'[1].uids \cap UidsWithStatus("needs_action") = {}
        /\ (ClearSettled /\ config # "") => Len(sent') = 1 /\ ListCallsIn(sent') = {1}
      ]_vars

\* C29 witness: the remove of the completed 'b' alone was carried out by the store,
\* and the list call after it is in flight
C29_Witness ==
    /\ lastOp.op = "serviceResolved"
    /\ lastOp.call.by = "clearCompleted"
    /\ lastOp.call.uids = {2}
    /\ RemoteUids = {1}
    /\ ListCallsIn(net) # {}

(***************************************************************************)
(* C30: the writes of setNotes and setCategory                             *)
(***************************************************************************)
\* the step is _updateNotes or _updateCategory
FieldEdited == lastOp'.op \in {"updateNotes", "updateCategory"}

\* the snapshot entry the step edits, as it is before the step
EditedEntry == items[FindUid(lastOp'.uid)]

\* the notes and the category the step has to encode: the new value of the field it
\* changes, the snapshot's value of the other
NotesToWrite ==
    IF lastOp'.op = "updateNotes" THEN sent'[1].patch.value ELSE EditedEntry.notes

CategoryToWrite ==
    IF lastOp'.op = "updateCategory" THEN sent'[1].patch.value ELSE EditedEntry.category

\* the step sends one update_item for the edited uid, at once, whose summary is
\* formatSummary of the snapshot's name and quantity, the new value of the changed
\* field and the snapshot's value of the other field
WritesCurrentFields ==
    /\ Len(sent') = 1
    /\ sent'[1].svc = "update_item"
    /\ sent'[1].uids = {lastOp'.uid}
    /\ sent'[1].summary
           = <<formatSummary(EditedEntry.name, EditedEntry.quantity,
                             NotesToWrite, CategoryToWrite)>>

\* the three fields the step does not change come back from the written summary
UnchangedFieldsDecode ==
    LET p == parseSummary(sent'[1].summary[1])
    IN  /\ p.name = EditedEntry.name
        /\ p.qty = EditedEntry.quantity
        /\ lastOp'.op = "updateNotes" => p.category = EditedEntry.category
        /\ lastOp'.op = "updateCategory" => p.notes = EditedEntry.notes

\* a field the codec gives back: no delimiter token, no outer whitespace
CleanField(s) == DelimiterFree(s) /\ Trim(s) = s

\* C30 as stated: setNotes and setCategory each send one immediate update_item with
\* the summary of the snapshot's current fields and the new value, and the three
\* unchanged fields decode back unchanged from the written summary.
C30_FieldWriteDecodesBack ==
    [][FieldEdited => WritesCurrentFields /\ UnchangedFieldsDecode]_vars

\* C30 amended: the write is as stated; the three unchanged fields decode back
\* unchanged when the snapshot's quantity is at least 1, the name, notes and category
\* written are free of delimiter tokens and of outer whitespace, and the name is not
\* empty, has no line break and does not end with ' //'.
C30_FieldWriteDecodesBackClean ==
    [][FieldEdited =>
           /\ WritesCurrentFields
           /\ (/\ EditedEntry.quantity >= 1
               /\ CleanField(EditedEntry.name)
               /\ CleanField(NotesToWrite)
               /\ CleanField(CategoryToWrite)
               /\ EditedEntry.name # <<>>
               /\ ~EndsWith(EditedEntry.name, <<" ", "/", "/">>)
               /\ \A i \in 1..Len(EditedEntry.name) : EditedEntry.name[i] # LineBreak)
              => UnchangedFieldsDecode]_vars

\* C30 witness: 'b' has quantity 2 and the notes 'n' in the snapshot, and the
\* category 'k' was just written for it with both
C30_Witness ==
    /\ lastOp.op = "updateCategory"
    /\ lastOp.uid = 2
    /\ items[2].quantity = 2 /\ items[2].notes = <<"n">>
    /\ Len(sent) = 1
    /\ sent[1].summary = << <<"b", " ", "(", "2", ")", " ", "[", "k", "]",
                             " ", "/", "/", " ", "n">> >>

(***************************************************************************)
(* C31: the notes are split off first                                      *)
(***************************************************************************)
\* the text before the first ' // ' of a summary that has one
BeforeNotes(s) == SubSeq(s, 1, IndexOf(s, NoteSep))

\* the text after the first ' // '
AfterNotes(s) == SubSeq(s, IndexOf(s, NoteSep) + 5, Len(s))

\* C31: a summary that holds ' // ' is split at its first occurrence: the notes are
\* the trimmed text after it, and the name, the quantity and the category are those
\* of the text before it alone, whatever bracket or parenthesis groups the notes hold.
C31_NotesSplitFirst ==
    (cPhase = "decoded" /\ Contains(Trim(cSummary), NoteSep)) =>
        LET s    == Trim(cSummary)
            head == parseSummary(BeforeNotes(s))
        IN  /\ cOut.notes = Trim(AfterNotes(s))
            /\ cOut.name = head.name
            /\ cOut.qty = head.qty
            /\ cOut.category = head.category

\* C31 witness: 'a(1) // b (2) [c]' was decoded to the name 'a' with quantity 1, no
\* category and the notes 'b (2) [c]'
C31_Witness ==
    /\ cPhase = "decoded"
    /\ cSummary = <<"a", "(", "1", ")">> \o NoteSep
                      \o <<"b", " ", "(", "2", ")", " ", "[", "c", "]">>
    /\ cOut = [name |-> <<"a">>, qty |-> 1, category |-> <<>>,
               notes |-> <<"b", " ", "(", "2", ")", " ", "[", "c", "]">>]

(***************************************************************************)
(* C32: malformed groups                                                   *)
(***************************************************************************)
\* how many characters of s are c
CountOf(s, c) == Cardinality({i \in 1..Len(s) : s[i] = c})

\* the positions of c in s
PositionsOf(s, c) == {i \in 1..Len(s) : s[i] = c}

SetMax(S) == CHOOSE x \in S : \A y \in S : y <= x

\* the text of a summary in which parseSummary looks for the groups
GroupText(summary) ==
    LET s == Trim(summary)
    IN  IF Contains(s, NoteSep) THEN Trim(BeforeNotes(s)) ELSE s

\* h has no bracket and ends with a parenthesised group that is empty or not
\* entirely digits
NonDigitParenGroup(h) ==
    /\ CountOf(h, "[") = 0 /\ CountOf(h, "]") = 0
    /\ h # <<>> /\ h[Len(h)] = ")"
    /\ PositionsOf(h, "(") # {}
    /\ LET p == SetMax(PositionsOf(h, "("))
       IN  \/ p = Len(h) - 1
           \/ \E j \in (p + 1)..(Len(h) - 1) : ~IsDigit(h[j])

\* the bracket group of h, from its first '[' on, is unbalanced
UnbalancedBracketGroup(h) ==
    /\ PositionsOf(h, "[") # {}
    /\ LET g == SubSeq(h, SetMin(PositionsOf(h, "[")), Len(h))
       IN  CountOf(g, "[") # CountOf(g, "]")

\* h ends with the empty bracket group
EmptyBracketGroup(h) == EndsWith(h, <<"[", "]">>)

\* the brackets of h are all in the decoded name
BracketsKept(h, name) ==
    CountOf(name, "[") = CountOf(h, "[") /\ CountOf(name, "]") = CountOf(h, "]")

\* h ends with ']' and holds a '[' followed, up to that ']', by one or more
\* characters other than ']', and before that '[' one or more characters without a
\* line break and then whitespace only
ExtractableBracketGroup(h) ==
    /\ h # <<>> /\ h[Len(h)] = "]"
    /\ \E p \in 2..(Len(h) - 2) :
           /\ h[p] = "["
           /\ \A j \in (p + 1)..(Len(h) - 1) : h[j] # "]"
           /\ \E k \in 1..(p - 1) :
                  /\ \A j \in 1..k : h[j] # LineBreak
                  /\ \A j \in (k + 1)..(p - 1) : IsWs(h[j])

RECURSIVE GreedyPass(_, _, _, _, _, _)
GreedyPass(q, t, ti, qi, points, last) ==
    IF ti >= Len(t) \/ qi >= Len(q)
    THEN IF qi = Len(q) THEN points ELSE 0
    ELSE IF t[ti + 1] = q[qi + 1]
         THEN GreedyPass(q, t, ti + 1, qi + 1,
                         points + 10 + (IF last >= 0 /\ ti = last + 1 THEN 5 ELSE 0), ti)
         ELSE GreedyPass(q, t, ti + 1, qi, points, last)

\* C33: a target that does not hold the query contiguously gets the result of one
\* greedy pass from left to right: 10 points for each matched query character and 5
\* more for each one matched directly behind the previous match (0 when the pass
\* ends before the query does); a target that holds the query contiguously gets
\* 1000 minus the index of the first occurrence.
C33_GreedySinglePass ==
    fOut # <<>> =>
        LET q == ToLowerCase(fIn.query)
            t == ToLowerCase(fIn.t1)
        IN  IF Contains(t, q)
            THEN fOut[1] = 1000 - IndexOf(t, q)
            ELSE fOut[1] = GreedyPass(q, t, 0, 0, 0, -1)

\* C33 witness: 'aBa' against 'AbxA', which does not hold it contiguously, scored
\* 10 + 15 + 10
C33_Witness ==
    /\ fIn.query = <<"a", "B", "a">>
    /\ fIn.t1 = <<"A", "b", "x", "A">>
    /\ fOut # <<>>
    /\ fOut[1] = 35

(***************************************************************************)
(* C34: the suggestion list                                                *)
(***************************************************************************)
\* the step is _updateSuggestions
SuggestionsUpdated == lastOp'.op = "updateSuggestions"

\* the position in the snapshot of the k-th suggestion shown after the step
ShownAt(k) == FindUid(suggestions'.shown[k])

\* the score of the snapshot entry at position i for the query typed
ScoreAt(i) == fuzzyScore(Trim(inputValue), items[i].name)

\* C34: for a trimmed query of 2 or more characters the suggestions are entries of
\* the snapshot with a score above 0, in the order of falling score, at most one for
\* each name compared without case (no entry of that name scores higher, and none of
\* the same score comes before it in the snapshot), and at most 5; a shorter query
\* gives no suggestion.
C34_SuggestionsRankedUnique ==
    [][SuggestionsUpdated =>
           LET n == Len(suggestions'.shown)
           IN  IF Len(Trim(inputValue)) < 2 THEN n = 0
               ELSE /\ n <= 5
                    /\ \A k \in 1..n : ShownAt(k) > 0 /\ ScoreAt(ShownAt(k)) > 0
                    /\ \A k \in 1..(n - 1) : ScoreAt(ShownAt(k)) >= ScoreAt(ShownAt(k + 1))
                    /\ \A k, l \in 1..n :
                           k # l => ~SameName(items[ShownAt(k)].name, items[ShownAt(l)].name)
                    /\ \A k \in 1..n : \A i \in 1..Len(items) :
                           SameName(items[i].name, items[ShownAt(k)].name) =>
                               \/ ScoreAt(i) < ScoreAt(ShownAt(k))
                               \/ ScoreAt(i) = ScoreAt(ShownAt(k)) /\ ShownAt(k) <= i]_vars

\* C34 witness: with 'ab' typed and eight entries in the snapshot, 'AB' before 'ab'
\* among them, five suggestions are shown, the first of them 'abb'
C34_Witness ==
    /\ lastOp.op = "updateSuggestions"
    /\ inputValue = <<"a", "b">>
    /\ Len(items) = 8
    /\ items[1].name = <<"a", "b", "b">>
    /\ Len(suggestions.shown) = 5
    /\ suggestions.shown[1] = 1


(***************************************************************************)
(* C35: the order of the projection                                        *)
(***************************************************************************)
ViewGroups == { <<"active", "needs_action">>, <<"completed", "completed">> }

\* the group holds exactly the snapshot's entries of its status, each once
GroupOfStatus(out, status) ==
    /\ \A i \in 1..Len(out) :
           /\ out[i].uid \in 1..Len(vIn.items)
           /\ out[i] = vIn.items[out[i].uid]
           /\ out[i].status = status
    /\ \A i, j \in 1..Len(out) : i # j => out[i].uid # out[j].uid
    /\ \A k \in 1..Len(vIn.items) :
           vIn.items[k].status = status => \E i \in 1..Len(out) : out[i].uid = k

\* the group is ordered by the grouping rule; fold tells whether categories
\* are compared without case
OrderedByCategory(out, fold) ==
    \A i, j \in 1..Len(out) : i < j =>
        LET ci == IF fold THEN ToLowerCase(out[i].category) ELSE out[i].category
            cj == IF fold THEN ToLowerCase(out[j].category) ELSE out[j].category
        IN  /\ ~(ci = <<>> /\ cj # <<>>)
            /\ (ci # <<>> /\ cj # <<>>) => localeCompare(ci, cj) <= 0
            /\ ci = cj => localeCompare(out[i].name, out[j].name) <= 0
            /\ (ci = cj /\ out[i].name = out[j].name) => out[i].uid < out[j].uid

OrderedByName(out) ==
    \A i, j \in 1..Len(out) : i < j =>
        /\ localeCompare(out[i].name, out[j].name) <= 0
        /\ out[i].name = out[j].name => out[i].uid < out[j].uid

InSnapshotOrder(out) ==
    \A i, j \in 1..Len(out) : i < j => out[i].uid < out[j].uid

ProjectionOrdered(fold) ==
    vOut # <<>> =>
        /\ vOut[1].items = vIn.items
        /\ \A g \in ViewGroups :
               LET out == vOut[1][g[1]]
               IN  /\ GroupOfStatus(out, g[2])
                   /\ IF vIn.show_categories
                         /\ \E i \in 1..Len(out) : out[i].category # <<>>
                      THEN OrderedByCategory(out, fold)
                      ELSE IF vIn.sort_by = "alphabetical"
                      THEN OrderedByName(out)
                      ELSE InSnapshotOrder(out)

\* C35 as stated: in each of the two groups, with grouping enabled and a category
\* present the entries with a category come first, then by category ascending, then
\* by name ascending, whatever the alphabetical setting is; otherwise by name when
\* alphabetical is configured; otherwise in snapshot order; the snapshot is unchanged
C35_ProjectionOrder == ProjectionOrdered(FALSE)

\* C35 amended: the same, the categories being compared without regard to case, so
\* that entries whose categories differ only in case are ordered by name; entries
\* equal in category and name keep their snapshot order
C35_ProjectionOrderFolded == ProjectionOrdered(TRUE)

\* a group of three with and without categories, reordered by the grouping although
\* alphabetical is configured
C35_Witness ==
    /\ vOut # <<>>
    /\ vIn.show_categories
    /\ vIn.sort_by = "alphabetical"
    /\ Len(vOut[1].active) = 3
    /\ vOut[1].active[1].uid = 3
    /\ vOut[1].active[3].category = <<>>
    /\ vOut[1].active[1].category # vOut[1].active[2].category
    /\ localeCompare(vOut[1].active[2].name, vOut[1].active[1].name) < 0


(***************************************************************************)
(* C36: adding an empty input does nothing                                 *)
(***************************************************************************)
\* the step is an add on an input that is empty or holds whitespace only
AddsBlankInput ==
    /\ lastOp'.op = "addCurrentInput"
    /\ clock' # clock
    /\ \A p \in 1..Len(inputValue) : IsWs(inputValue[p])

\* C36: an add on an empty or whitespace-only input issues no remote call, arms no
\* debounce timer and leaves the snapshot and the registry of pending writes as
\* they were
C36_BlankAddDoesNothing ==
    [][AddsBlankInput =>
           /\ sent' = <<>> /\ net' = net
           /\ timers' = timers
           /\ qtyTimers' = qtyTimers
           /\ items' = items
           /\ remote' = remote]_vars

\* C36 witness: an add on the input ' ' over the loaded snapshot: the input is still
\* there, the snapshot is as it was fetched, nothing was sent and nothing is in flight
C36_Witness ==
    /\ lastOp.op = "addCurrentInput"
    /\ inputValue = <<" ">>
    /\ Len(items) = 2
    /\ sent = <<>> /\ net = <<>>
    /\ timers = {}


(***************************************************************************)
(* C37: notes and summary are kept apart in the description-field build    *)
(***************************************************************************)
\* the step sends exactly one update of item u that carries a description only
SendsDescriptionOnly(u) ==
    /\ Len(sent') = 1
    /\ sent'[1].kind = "service" /\ sent'[1].svc = "update_item"
    /\ sent'[1].uids = {u}
    /\ sent'[1].summary = <<>>
    /\ sent'[1].status = ""
    /\ Len(sent'[1].description) = 1

\* the store after the update of c: the description of c's item is the one sent,
\* every summary and status is as before
DescriptionStored(c) ==
    /\ Len(remote') = Len(remote)
    /\ \A i \in 1..Len(remote) :
           /\ remote'[i].uid = remote[i].uid
           /\ remote'[i].summary = remote[i].summary
           /\ remote'[i].status = remote[i].status
           /\ remote'[i].description =
                  IF remote[i].uid \in c.uids THEN c.description[1]
                  ELSE remote[i].description

\* the snapshot just decoded has the notes of the response's descriptions
NotesFromDescription(res) ==
    /\ Len(items') = Len(res)
    /\ \A k \in 1..Len(res) : items'[k].notes = res[k].description

====
